---- MODULE Spec2Model ----
(***************************************************************************)
(* A model of the map codec of mm-modchart-maker: the SSPM encoder and     *)
(* decoder and the PHXM decoder (src/src/maps/parser.rs), the binary       *)
(* reader and writer they are built on (src/src/maps/io.rs) and the note   *)
(* projection (src/src/maps/objects/note.rs).                              *)
(*                                                                         *)
(* Representation.  A stream is a sequence of bytes (0..255); a cursor     *)
(* position is a natural number, 0-based as in the code.  A u8 or a u16 is *)
(* a natural number.  A u32, u64, f32 or f64 is kept as the tuple of its   *)
(* little-endian bytes (the model checker's integers are 32-bit signed, so *)
(* a u32 does not fit one): from_le_bytes and to_le_bytes are then the     *)
(* identity on these tuples, and arithmetic on them is done bytewise       *)
(* (U64Add, U64Less) or after decoding the IEEE-754 fields (F32Unpack).    *)
(* A string is the sequence of its UTF-8 bytes.                            *)
(***************************************************************************)
EXTENDS Integers, Sequences, FiniteSets, TLC

Byte == 0..255

\* 2^n for the shifts the float and integer arithmetic needs (n <= 30).
RECURSIVE Pow2(_)
Pow2(n) ==
    IF n <= 0 THEN 1 ELSE 2 * Pow2(n - 1)

Min(a, b) ==
    IF a <= b THEN a ELSE b

\* The n low bytes of the natural number v, least significant first
\* (u16::to_le_bytes, u32::to_le_bytes, u64::to_le_bytes of a small value).
RECURSIVE ToLe(_, _)
ToLe(v, n) ==
    IF n = 0 THEN << >> ELSE << v % 256 >> \o ToLe(v \div 256, n - 1)

\* The value of a little-endian byte tuple; only applied where the value is
\* known to fit (u16, or a wide value that passed Fits).
RECURSIVE FromLe(_)
FromLe(bs) ==
    IF bs = << >> THEN 0 ELSE bs[1] + 256 * FromLe(Tail(bs))

\* A position no modelled stream reaches: where a seek to an offset of 2^30
\* or more leaves the cursor.
FarPos ==
    Pow2(30)

\* Whether a little-endian tuple denotes a value below 2^30 (FarPos).
Fits(bs) ==
    /\ \A i \in 5..Len(bs) : bs[i] = 0
    /\ (Len(bs) < 4 \/ bs[4] < 64)

\* The position a wide little-endian value denotes, FarPos when it is beyond
\* every modelled stream.
WideToNat(bs) ==
    IF Fits(bs) THEN FromLe(bs) ELSE FarPos

\* u64 + u64 on little-endian 8-byte tuples: the sum modulo 2^64 and whether
\* it overflowed.
RECURSIVE AddLe(_, _, _)
AddLe(a, b, carry) ==
    IF a = << >>
    THEN [sum |-> << >>, overflow |-> carry = 1]
    ELSE LET t == a[1] + b[1] + carry
             r == AddLe(Tail(a), Tail(b), t \div 256)
         IN  [sum |-> << t % 256 >> \o r.sum, overflow |-> r.overflow]

U64Add(a, b) ==
    AddLe(a, b, 0)

\* a < b on little-endian tuples of the same length.
RECURSIVE U64Less(_, _)
U64Less(a, b) ==
    IF a = << >> THEN FALSE
    ELSE LET n == Len(a)
         IN  IF a[n] # b[n] THEN a[n] < b[n]
             ELSE U64Less(SubSeq(a, 1, n - 1), SubSeq(b, 1, n - 1))

(***************************************************************************)
(* f32: IEEE-754 single precision, kept as its four little-endian bytes.   *)
(* The arithmetic the codec does on positions (round, * 100.0, / 100.0,    *)
(* `as u8`, u8 -> f32, - 2.0) is done on the unpacked sign, significand    *)
(* and exponent: a finite value is (-1)^s * m * 2^e.                       *)
(***************************************************************************)
F32Sign(f) ==
    f[4] \div 128

F32BiasedExp(f) ==
    (f[4] % 128) * 2 + f[3] \div 128

F32Fraction(f) ==
    (f[3] % 128) * 65536 + f[2] * 256 + f[1]

\* A significand shifted into [2^23, 2^24), the exponent following it
\* (exact: the value is unchanged).  m > 0.
RECURSIVE NormSig(_, _)
NormSig(m, e) ==
    IF m >= Pow2(24) THEN NormSig(m \div 2, e + 1)
    ELSE IF m < Pow2(23) THEN NormSig(m * 2, e - 1)
    ELSE [m |-> m, e |-> e]

\* The unpacked value, in a normal form that makes equal values equal
\* records, zeros of either sign apart.
F32Value(kind, s, m, e) ==
    IF kind # "fin" THEN [k |-> kind, s |-> s, m |-> 0, e |-> 0]
    ELSE IF m = 0 THEN [k |-> "fin", s |-> s, m |-> 0, e |-> 0]
    ELSE LET n == NormSig(m, e) IN [k |-> "fin", s |-> s, m |-> n.m, e |-> n.e]

F32Unpack(f) ==
    LET s == F32Sign(f)
        x == F32BiasedExp(f)
        fr == F32Fraction(f)
    IN  IF x = 255 THEN F32Value(IF fr = 0 THEN "inf" ELSE "nan", s, 0, 0)
        ELSE IF x = 0 THEN F32Value("fin", s, fr, -149)
        ELSE F32Value("fin", s, Pow2(23) + fr, x - 150)

\* p / 2^k rounded to the nearest integer, ties to even.
RoundNearestEven(p, k) ==
    LET d == Pow2(k)
        q == p \div d
        r == p % d
    IN  IF 2 * r > d \/ (2 * r = d /\ q % 2 = 1) THEN q + 1 ELSE q

\* The least k with p / 2^k < 2^24.
RECURSIVE ShiftTo24(_)
ShiftTo24(p) ==
    IF p < Pow2(24) THEN 0 ELSE 1 + ShiftTo24(p \div 2)

\* v * 100.0 in f32 (round to nearest even, overflow to infinity).
F32MulHundred(v) ==
    IF v.k # "fin" \/ v.m = 0 THEN v
    ELSE LET p == v.m * 100
             k == ShiftTo24(p)
             r == F32Value("fin", v.s, RoundNearestEven(p, k), v.e + k)
         IN  IF r.e > 104 THEN F32Value("inf", v.s, 0, 0) ELSE r

\* f32::round: to the nearest integer, halves away from zero.
F32Round(v) ==
    IF v.k # "fin" \/ v.m = 0 \/ v.e >= 0 THEN v
    ELSE IF -v.e >= 25 THEN F32Value("fin", v.s, 0, 0)
    ELSE LET d == Pow2(-v.e)
             q == v.m \div d
             r == v.m % d
         IN  F32Value("fin", v.s, IF 2 * r >= d THEN q + 1 ELSE q, 0)

\* v / 100.0 in f32, for v an integer or zero (what round returns): the
\* quotient is then never subnormal.
F32DivHundred(v) ==
    IF v.k # "fin" \/ v.m = 0 THEN v
    ELSE LET t == IF (v.m * 128) \div 100 < Pow2(24) THEN 7 ELSE 6
             n == v.m * Pow2(t)
             q == n \div 100
             r == n % 100
             q1 == IF 2 * r > 100 \/ (2 * r = 100 /\ q % 2 = 1) THEN q + 1 ELSE q
         IN  F32Value("fin", v.s, q1, v.e - t)

\* a != b on f32: a NaN differs from everything, the two zeros are equal.
F32Ne(a, b) ==
    IF a.k = "nan" \/ b.k = "nan" THEN TRUE
    ELSE IF a.k = "fin" /\ b.k = "fin" /\ a.m = 0 /\ b.m = 0 THEN FALSE
    ELSE a # b

\* bevy::math::ops::round(value) as an unpacked value.
round(f) ==
    F32Round(F32Unpack(f))

\* round_to_places(value, 2): factor = 10f32.powi(2) = 100.0;
\* (value * factor).round() / factor.
round_to_places(f) ==
    F32DivHundred(F32Round(F32MulHundred(F32Unpack(f))))

\* `value as u8`: toward zero, saturating, NaN to 0.
F32AsU8(f) ==
    LET v == F32Unpack(f)
    IN  IF v.k = "nan" THEN 0
        ELSE IF v.s = 1 THEN 0
        ELSE IF v.k = "inf" THEN 255
        ELSE IF v.m = 0 THEN 0
        ELSE IF v.e >= 0 THEN 255
        ELSE IF -v.e >= 25 THEN 0
        ELSE Min(v.m \div Pow2(-v.e), 255)

\* floor(log2 n), n > 0.
RECURSIVE Log2(_)
Log2(n) ==
    IF n <= 1 THEN 0 ELSE 1 + Log2(n \div 2)

\* The f32 holding the integer n exactly (|n| < 2^24): `b as f32` and the
\* result of `b as f32 - 2.0`; 0 is +0.0.
F32FromInt(n) ==
    IF n = 0 THEN << 0, 0, 0, 0 >>
    ELSE LET a == IF n < 0 THEN -n ELSE n
             p == Log2(a)
             x == 127 + p
             fr == (a - Pow2(p)) * Pow2(23 - p)
         IN  << fr % 256,
                (fr \div 256) % 256,
                (x % 2) * 128 + fr \div 65536,
                (IF n < 0 THEN 128 ELSE 0) + x \div 2 >>

\* Whether an f32 is a finite integer of magnitude below 2^24, and which.
F32IsSmallInt(f) ==
    LET v == F32Unpack(f)
    IN  /\ v.k = "fin"
        /\ \/ v.m = 0
           \/ /\ v.e <= 0
              /\ v.e >= -23
              /\ v.m % Pow2(-v.e) = 0

F32ToInt(f) ==
    LET v == F32Unpack(f)
        a == IF v.m = 0 THEN 0 ELSE v.m \div Pow2(-v.e)
    IN  IF v.s = 1 THEN -a ELSE a

(***************************************************************************)
(* BinaryReader (io.rs) over a Cursor: every read takes the stream s and   *)
(* the position p and returns [ok, v, p, err]: the value and the position  *)
(* after it, or the io::ErrorKind of the failure.                          *)
(***************************************************************************)
Ok(v, p) ==
    [ok |-> TRUE, v |-> v, p |-> p, err |-> "", msg |-> ""]

Fail(kind, msg, p) ==
    [ok |-> FALSE, v |-> << >>, p |-> p, err |-> kind, msg |-> msg]

\* Read::read_exact on a Cursor: the n bytes at p, or UnexpectedEof when
\* fewer than n remain, the cursor then left at the end of the stream (an
\* empty read succeeds wherever the cursor is).
read_exact(s, p, n) ==
    IF n = 0 THEN Ok(<< >>, p)
    ELSE IF p + n <= Len(s) THEN Ok(SubSeq(s, p + 1, p + n), p + n)
    ELSE Fail("UnexpectedEof", "failed to fill whole buffer", Len(s))

\* What a typed read makes of the bytes read_exact returned.
BoolOf(r) ==
    IF r.ok THEN Ok(r.v[1] = 1, r.p) ELSE r

\* ByteOf with a failed read taken for a zero byte.
ByteOfDefault(r) ==
    IF r.ok THEN Ok(r.v[1], r.p) ELSE Ok(0, r.p + 1)

ByteOf(r) ==
    IF r.ok THEN Ok(r.v[1], r.p) ELSE r

U16Of(r) ==
    IF r.ok THEN Ok(FromLe(r.v), r.p) ELSE r

read_bool(s, p) ==
    BoolOf(read_exact(s, p, 1))

read_u8(s, p) ==
    ByteOf(read_exact(s, p, 1))

read_u16(s, p) ==
    U16Of(read_exact(s, p, 2))

read_u32(s, p) ==
    read_exact(s, p, 4)

read_u64(s, p) ==
    read_exact(s, p, 8)

read_f32(s, p) ==
    read_exact(s, p, 4)

read_f64(s, p) ==
    read_exact(s, p, 8)

read_sha1(s, p) ==
    read_exact(s, p, 20)

\* String::from_utf8: whether the bytes are well-formed UTF-8 (no overlong
\* form, no surrogate, nothing above U+10FFFF, no cut sequence).
InRange(bs, i, lo, hi) ==
    i <= Len(bs) /\ bs[i] >= lo /\ bs[i] <= hi

\* The length of the well-formed sequence starting at bs[i], 0 if none.
Utf8Width(bs, i) ==
    LET b == bs[i]
    IN  IF b <= 127 THEN 1
        ELSE IF b >= 194 /\ b <= 223
        THEN IF InRange(bs, i + 1, 128, 191) THEN 2 ELSE 0
        ELSE IF b >= 224 /\ b <= 239
        THEN IF /\ InRange(bs, i + 1, IF b = 224 THEN 160 ELSE 128,
                           IF b = 237 THEN 159 ELSE 191)
                /\ InRange(bs, i + 2, 128, 191)
             THEN 3 ELSE 0
        ELSE IF b >= 240 /\ b <= 244
        THEN IF /\ InRange(bs, i + 1, IF b = 240 THEN 144 ELSE 128,
                           IF b = 244 THEN 143 ELSE 191)
                /\ InRange(bs, i + 2, 128, 191)
                /\ InRange(bs, i + 3, 128, 191)
             THEN 4 ELSE 0
        ELSE 0

RECURSIVE Utf8From(_, _)
Utf8From(bs, i) ==
    IF i > Len(bs) THEN TRUE
    ELSE IF Utf8Width(bs, i) = 0 THEN FALSE
    ELSE Utf8From(bs, i + Utf8Width(bs, i))

from_utf8(bs) ==
    Utf8From(bs, 1)

\* The bytes a length prefix announces: n is the read of the prefix.
ReadCounted(s, n) ==
    IF ~n.ok THEN n ELSE read_exact(s, n.p, WideToNat(n.v))

\* The bytes as a String, InvalidData when they are not UTF-8.
Utf8Checked(b) ==
    IF ~b.ok THEN b
    ELSE IF from_utf8(b.v) THEN b
    ELSE Fail("InvalidData", "Invalid UTF-8 sequence", b.p)

\* read_string: a u16 byte length, that many bytes, which must be UTF-8.
read_string(s, p) ==
    Utf8Checked(ReadCounted(s, read_exact(s, p, 2)))

\* read_long_string: the same with a u32 byte length.
read_long_string(s, p) ==
    Utf8Checked(ReadCounted(s, read_exact(s, p, 4)))

\* Consecutive fixed-width reads: the byte tuples of the fields, in order,
\* or the failure of the first read that fails.
RECURSIVE ReadFields(_, _, _, _)
RECURSIVE ReadFieldsNext(_, _, _, _)
ReadFields(s, p, widths, acc) ==
    IF widths = << >> THEN Ok(acc, p)
    ELSE ReadFieldsNext(s, widths, acc, read_exact(s, p, Head(widths)))

ReadFieldsNext(s, widths, acc, r) ==
    IF ~r.ok THEN r ELSE ReadFields(s, r.p, Tail(widths), Append(acc, r.v))

(***************************************************************************)
(* ObjectType (parser.rs): a kind with an optional value.  A schema slot   *)
(* is Slot(kind), None inside; a decoded field is Value(kind, v).          *)
(***************************************************************************)
Slot(kind) ==
    [t |-> kind, some |-> FALSE, v |-> << >>]

Value(kind, v) ==
    [t |-> kind, some |-> TRUE, v |-> v]

\* from_sspm giving every tag it does not know the slot of a u8.
from_sspm_default(value) ==
    CASE value = 1 -> Ok(Slot("U8"), 0)
      [] value = 2 -> Ok(Slot("U16"), 0)
      [] value = 3 -> Ok(Slot("U32"), 0)
      [] value = 4 -> Ok(Slot("U64"), 0)
      [] value = 5 -> Ok(Slot("F32"), 0)
      [] value = 6 -> Ok(Slot("F64"), 0)
      [] value = 7 -> Ok(Slot("Vec2"), 0)
      [] value = 8 -> Ok(Slot("Buf"), 0)
      [] value = 9 -> Ok(Slot("String"), 0)
      [] value = 10 -> Ok(Slot("LongBuf"), 0)
      [] value = 11 -> Ok(Slot("LongString"), 0)
      [] value = 12 -> Ok(Slot("Vec"), 0)
      [] OTHER -> Ok(Slot("U8"), 0)

\* ObjectType::from_sspm: the slot for a type tag, or InvalidData.
from_sspm(value) ==
    CASE value = 1 -> Ok(Slot("U8"), 0)
      [] value = 2 -> Ok(Slot("U16"), 0)
      [] value = 3 -> Ok(Slot("U32"), 0)
      [] value = 4 -> Ok(Slot("U64"), 0)
      [] value = 5 -> Ok(Slot("F32"), 0)
      [] value = 6 -> Ok(Slot("F64"), 0)
      [] value = 7 -> Ok(Slot("Vec2"), 0)
      [] value = 8 -> Ok(Slot("Buf"), 0)
      [] value = 9 -> Ok(Slot("String"), 0)
      [] value = 10 -> Ok(Slot("LongBuf"), 0)
      [] value = 11 -> Ok(Slot("LongString"), 0)
      [] value = 12 -> Ok(Slot("Vec"), 0)
      [] OTHER -> Fail("InvalidData", "", 0)

\* Wrap a read's value as a populated ObjectType of the given kind.
Populate(kind, r) ==
    IF r.ok THEN Ok(Value(kind, r.v), r.p) ELSE r

parse_u8(s, p) ==
    Populate("U8", read_u8(s, p))

parse_u16(s, p) ==
    Populate("U16", read_u16(s, p))

parse_u32(s, p) ==
    Populate("U32", read_u32(s, p))

parse_u64(s, p) ==
    Populate("U64", read_u64(s, p))

parse_f32(s, p) ==
    Populate("F32", read_f32(s, p))

parse_f64(s, p) ==
    Populate("F64", read_f64(s, p))

\* CompactAxis taking the byte as the value, the offset left out.
CompactAxisRaw(b) ==
    F32FromInt(b)

\* The compact axis byte as the decoder reads it: (byte as f32) - 2.0.
CompactAxis(b) ==
    F32FromInt(b - 2)

\* The exact form: r is the read of the two f32.
ExactVec2(r) ==
    IF ~r.ok THEN r ELSE Ok(Value("Vec2", [x |-> r.v[1], y |-> r.v[2]]), r.p)

\* The compact form: r is the read of the two bytes.
CompactVec2(r) ==
    IF ~r.ok THEN r
    ELSE Ok(Value("Vec2", [x |-> CompactAxis(r.v[1][1]), y |-> CompactAxis(r.v[2][1])]), r.p)

\* The position that follows the quantum flag q.
Vec2After(s, q) ==
    IF ~q.ok THEN q
    ELSE IF q.v THEN ExactVec2(ReadFields(s, q.p, << 4, 4 >>, << >>))
    ELSE CompactVec2(ReadFields(s, q.p, << 1, 1 >>, << >>))

\* parse_vec2: the quantum flag, then two f32 (exact form) or two bytes
\* (compact form).
parse_vec2(s, p) ==
    Vec2After(s, read_bool(s, p))

parse_buf(s, p) ==
    Populate("Buf", ReadCounted(s, read_exact(s, p, 2)))

parse_long_buf(s, p) ==
    Populate("LongBuf", ReadCounted(s, read_exact(s, p, 4)))

parse_string(s, p) ==
    Populate("String", read_string(s, p))

parse_long_string(s, p) ==
    Populate("LongString", read_long_string(s, p))

\* parse_types: one value of the slot's kind; a nested sequence (and the
\* kinds no tag maps to) is InvalidData.
parse_types(object_type, s, p) ==
    CASE object_type.t = "U8" -> parse_u8(s, p)
      [] object_type.t = "U16" -> parse_u16(s, p)
      [] object_type.t = "U32" -> parse_u32(s, p)
      [] object_type.t = "U64" -> parse_u64(s, p)
      [] object_type.t = "F32" -> parse_f32(s, p)
      [] object_type.t = "F64" -> parse_f64(s, p)
      [] object_type.t = "Vec2" -> parse_vec2(s, p)
      [] object_type.t = "Buf" -> parse_buf(s, p)
      [] object_type.t = "LongBuf" -> parse_long_buf(s, p)
      [] object_type.t = "String" -> parse_string(s, p)
      [] object_type.t = "LongString" -> parse_long_string(s, p)
      [] OTHER -> Fail("InvalidData", "", p)

\* The loop of parse_definitions: one value per slot, in slot order, stopping
\* at the first failure.
RECURSIVE ParseSlots(_, _, _, _)
RECURSIVE ParseSlotsNext(_, _, _, _)
ParseSlots(slots, s, p, acc) ==
    IF slots = << >> THEN Ok(acc, p)
    ELSE ParseSlotsNext(slots, s, acc, parse_types(Head(slots), s, p))

ParseSlotsNext(slots, s, acc, r) ==
    IF ~r.ok THEN r ELSE ParseSlots(Tail(slots), s, r.p, Append(acc, r.v))

\* The ObjectDefinition parse_definitions returns: r is the read of the fields.
RecordOf(marker_definition, ms, r) ==
    IF ~r.ok THEN r
    ELSE Ok([name |-> marker_definition.name, millisecond |-> ms, definitions |-> r.v], r.p)

\* parse_definitions: the record of a schema entry, read at p.
parse_definitions(marker_definition, ms, s, p) ==
    RecordOf(marker_definition, ms, ParseSlots(marker_definition.definitions, s, p, << >>))

\* "ssp_note": the reserved schema name of a note record.
SspNote ==
    << 115, 115, 112, 95, 110, 111, 116, 101 >>

\* Note::from_definition (note.rs): the note of a decoded record.
from_definition(obj) ==
    IF Len(obj.definitions) < 1
    THEN Fail("InvalidData", "Object definition has no types", 0)
    ELSE IF obj.definitions[1].t = "Vec2" /\ obj.definitions[1].some
    THEN Ok([millisecond |-> obj.millisecond, position |-> obj.definitions[1].v], 0)
    ELSE Fail("InvalidData", "Object could not be parsed as Note", 0)

(***************************************************************************)
(* BinaryWriter (io.rs) over a Cursor<Vec<u8>>: bytes written at p replace *)
(* what is there and extend the stream past its end.                       *)
(***************************************************************************)
Zeros(n) ==
    [i \in 1..n |-> 0]

write_all(s, p, bs) ==
    LET pre == IF p <= Len(s) THEN SubSeq(s, 1, p) ELSE s \o Zeros(p - Len(s))
    IN  pre \o bs \o SubSeq(s, p + Len(bs) + 1, Len(s))

\* The bytes each typed write puts on the stream.
write_bool(value) ==
    << IF value THEN 1 ELSE 0 >>

write_u8(value) ==
    << value % 256 >>

write_u16(value) ==
    ToLe(value % 65536, 2)

\* write_u32(n as u32) for a length n.
write_u32(value) ==
    ToLe(value, 4)

\* write_u64 of a stream position or a byte count.
write_u64(value) ==
    ToLe(value, 8)

\* write_string: the byte length as u16 (value.len() as u16), then the bytes.
write_string(value) ==
    write_u16(Len(value)) \o value

(***************************************************************************)
(* The state.                                                              *)
(*   map     the Map given to serialize (EmptyMap when a file is decoded   *)
(*           that this encoder did not write)                              *)
(*   stream  the bytes of the file (of objects.phxmo in a PHXM decode)     *)
(*   pos     the cursor of the writer, then of the reader                  *)
(*   pc      the section serialize or deserialize is at                    *)
(*   enc     serialize's locals                                            *)
(*   dec     deserialize's locals (those of the PHXM decoder in dec.phxm)  *)
(*   result  what the call returned: Ok, Err(kind) or a panic              *)
(***************************************************************************)
VARIABLES map, stream, pos, pc, enc, dec, result

vars == << map, stream, pos, pc, enc, dec, result >>

\* Option<AudioSource>.  far marks a zero-filled buffer of 2^30 bytes or more,
\* which the model does not spell out.
NoAudio ==
    [some |-> FALSE, bytes |-> << >>, far |-> FALSE]

SomeAudio(bs) ==
    [some |-> TRUE, bytes |-> bs, far |-> FALSE]

EmptyMap ==
    [id |-> << >>, length |-> << 0, 0, 0, 0 >>, title |-> << >>, artists |-> << >>,
     difficulty |-> 0, difficulty_name |-> << >>, mappers |-> << >>,
     audio |-> NoAudio, cover |-> << >>, cover_far |-> FALSE, notes |-> << >>,
     objects |-> << >>, format |-> "SSPM"]

NoResult ==
    [kind |-> "none", op |-> "", err |-> "", msg |-> "", map |-> EmptyMap]

Returned(op, m) ==
    [kind |-> "Ok", op |-> op, err |-> "", msg |-> "", map |-> m]

Failed(op, r) ==
    [kind |-> "Err", op |-> op, err |-> r.err, msg |-> r.msg, map |-> EmptyMap]

Panicked(op, msg) ==
    [kind |-> "Panic", op |-> op, err |-> "", msg |-> msg, map |-> EmptyMap]

EncInit ==
    [data_offset |-> 0, custom_data_offset |-> 0, custom_data_length |-> 0,
     audio_offset |-> 0, audio_length |-> 0, cover_offset |-> 0, cover_length |-> 0,
     object_definition_offset |-> 0, object_definition_length |-> 0,
     object_data_offset |-> 0, object_data_length |-> 0, next_note |-> 1, seeks |-> << >>]

\* "SS+m"
Magic ==
    << 83, 83, 43, 109 >>

\* The version bytes of the header: [0x02, 0x00].
VersionBytes ==
    << 2, 0 >>

\* "difficulty_name"
DifficultyNameKey ==
    << 100, 105, 102, 102, 105, 99, 117, 108, 116, 121, 95, 110, 97, 109, 101 >>

\* format!("MM Export - {}", "0.0.1")
ExportSignature ==
    << 77, 77, 32, 69, 120, 112, 111, 114, 116, 32, 45, 32, 48, 46, 48, 46, 49 >>

\* The concatenation of write_string over a list of strings.
RECURSIVE WriteStrings(_)
WriteStrings(list) ==
    IF list = << >> THEN << >> ELSE write_string(Head(list)) \o WriteStrings(Tail(list))

(***************************************************************************)
(* SSPMSerializer::serialize, one action per section it writes.            *)
(***************************************************************************)
\* The header, the static metadata and the 80-byte placeholder of the
\* offset table (parser.rs 83-100).
SerializeHeader ==
    /\ pc = "enc_header"
    /\ LET head == Magic \o VersionBytes \o Zeros(4)
           meta == Zeros(20) \o map.length \o write_u32(Len(map.notes))
                   \o write_u32(Len(map.notes) + Len(map.objects))
                   \o write_u8(map.difficulty) \o write_u16(0)
                   \o write_bool(map.audio.some) \o write_bool(map.cover # << >>)
                   \o write_bool(FALSE)
           s1 == write_all(stream, pos, head \o meta)
           p1 == pos + Len(head \o meta)
       IN  /\ stream' = write_all(s1, p1, Zeros(80))
           /\ pos' = p1 + 80
           /\ enc' = [enc EXCEPT !.data_offset = p1]
    /\ pc' = "enc_strings"
    /\ UNCHANGED << map, dec, result >>

\* The id, the title twice, and the mappers (parser.rs 102-109).
SerializeStrings ==
    /\ pc = "enc_strings"
    /\ LET bs == write_string(map.id) \o write_string(map.title) \o write_string(map.title)
                 \o write_u16(Len(map.mappers)) \o WriteStrings(map.mappers)
       IN  /\ stream' = write_all(stream, pos, bs)
           /\ pos' = pos + Len(bs)
    /\ pc' = "enc_custom"
    /\ UNCHANGED << map, enc, dec, result >>

\* SerializeCustomData writing the field whether or not there is a name.
SerializeCustomDataAlways ==
    /\ pc = "enc_custom"
    /\ LET bs == write_u16(1) \o write_string(DifficultyNameKey) \o write_u8(9)
                 \o write_string(map.difficulty_name)
       IN  /\ stream' = write_all(stream, pos, bs)
           /\ pos' = pos + Len(bs)
           /\ enc' = [enc EXCEPT !.custom_data_offset = pos,
                                 !.custom_data_length = Len(bs)]
    /\ pc' = "enc_media"
    /\ UNCHANGED << map, dec, result >>

\* The custom data block (parser.rs 111-125).
SerializeCustomData ==
    /\ pc = "enc_custom"
    /\ LET bs == IF map.difficulty_name # << >>
                 THEN write_u16(1) \o write_string(DifficultyNameKey) \o write_u8(9)
                      \o write_string(map.difficulty_name)
                 ELSE write_u16(0)
       IN  /\ stream' = write_all(stream, pos, bs)
           /\ pos' = pos + Len(bs)
           /\ enc' = IF map.difficulty_name # << >>
                     THEN [enc EXCEPT !.custom_data_offset = pos,
                                      !.custom_data_length = Len(bs)]
                     ELSE enc
    /\ pc' = "enc_media"
    /\ UNCHANGED << map, dec, result >>

\* The audio and the cover bytes (parser.rs 127-140).
SerializeMedia ==
    /\ pc = "enc_media"
    /\ LET audio == IF map.audio.some THEN map.audio.bytes ELSE << >>
           s1 == write_all(stream, pos, audio)
           p1 == pos + Len(audio)
       IN  /\ stream' = write_all(s1, p1, map.cover)
           /\ pos' = p1 + Len(map.cover)
           /\ enc' = [enc EXCEPT !.audio_offset = pos,
                                 !.audio_length = p1 - pos,
                                 !.cover_offset = IF map.cover # << >> THEN p1 ELSE 0,
                                 !.cover_length = Len(map.cover)]
    /\ pc' = "enc_schema"
    /\ UNCHANGED << map, dec, result >>

\* The schema table: one entry, ssp_note with one Vec2 slot (parser.rs 142-148).
SerializeSchema ==
    /\ pc = "enc_schema"
    /\ LET bs == write_u8(1) \o write_string(SspNote) \o << 1, 7, 0 >>
       IN  /\ stream' = write_all(stream, pos, bs)
           /\ pos' = pos + Len(bs)
           /\ enc' = [enc EXCEPT !.object_definition_offset = pos,
                                 !.object_definition_length = Len(bs),
                                 !.object_data_offset = pos + Len(bs)]
    /\ pc' = "enc_notes"
    /\ UNCHANGED << map, dec, result >>

\* Quantum taking the compact form only for axes that are integers as they
\* stand, the rounding to two places left out.
QuantumInteger(position) ==
    \/ F32Ne(round(position.x), F32Unpack(position.x))
    \/ F32Ne(round(position.y), F32Unpack(position.y))

\* The quantum flag of a position (parser.rs 154-155): exact form unless
\* both axes, rounded to two places, equal their rounding to an integer.
Quantum(position) ==
    \/ F32Ne(round(position.x), round_to_places(position.x))
    \/ F32Ne(round(position.y), round_to_places(position.y))

\* NoteRecord with the compact bytes written as `as u8`, the `+ 1` left out.
NoteRecordNoBias(note) ==
    note.millisecond \o write_u8(0) \o write_bool(Quantum(note.position))
    \o (IF Quantum(note.position)
        THEN note.position.x \o note.position.y
        ELSE write_u8(F32AsU8(note.position.x)) \o write_u8(F32AsU8(note.position.y)))

\* The bytes of one note record (parser.rs 151-165), the `+ 1` wrapping.
NoteRecord(note) ==
    note.millisecond \o write_u8(0) \o write_bool(Quantum(note.position))
    \o (IF Quantum(note.position)
        THEN note.position.x \o note.position.y
        ELSE write_u8(F32AsU8(note.position.x) + 1) \o write_u8(F32AsU8(note.position.y) + 1))

\* Whether `as u8 + 1` overflows u8 on an axis of a compact note.
AxisOverflows(note) ==
    /\ ~Quantum(note.position)
    /\ (F32AsU8(note.position.x) = 255 \/ F32AsU8(note.position.y) = 255)

\* One turn of the note loop (parser.rs 150-166).  u8 overflow panics in a
\* build with overflow checks and wraps in one without.  The panic comes
\* after the timestamp, the id and the flag are written (6 bytes), and
\* after the x byte too when it is the y axis that overflows (7 bytes).
SerializeNote ==
    /\ pc = "enc_notes"
    /\ enc.next_note <= Len(map.notes)
    /\ LET note == map.notes[enc.next_note]
           bs == NoteRecord(note)
       IN  \/ /\ stream' = write_all(stream, pos, bs)
              /\ pos' = pos + Len(bs)
              /\ enc' = [enc EXCEPT !.next_note = @ + 1]
              /\ pc' = pc
              /\ result' = result
           \/ /\ AxisOverflows(note)
              /\ LET written == SubSeq(bs, 1, IF F32AsU8(note.position.x) = 255
                                               THEN 6 ELSE 7)
                 IN  /\ stream' = write_all(stream, pos, written)
                     /\ pos' = pos + Len(written)
              /\ result' = Panicked("serialize", "attempt to add with overflow")
              /\ pc' = "done"
              /\ UNCHANGED enc
    /\ UNCHANGED << map, dec >>

\* After the last note: the record-stream length, the seek back to the
\* placeholder and the ten offsets and lengths (parser.rs 168-180).
SerializeOffsets ==
    /\ pc = "enc_notes"
    /\ enc.next_note > Len(map.notes)
    /\ LET length == pos - enc.object_data_offset
           table == write_u64(enc.custom_data_offset) \o write_u64(enc.custom_data_length)
                    \o write_u64(enc.audio_offset) \o write_u64(enc.audio_length)
                    \o write_u64(enc.cover_offset) \o write_u64(enc.cover_length)
                    \o write_u64(enc.object_definition_offset)
                    \o write_u64(enc.object_definition_length)
                    \o write_u64(enc.object_data_offset) \o write_u64(length)
       IN  /\ stream' = write_all(stream, enc.data_offset, table)
           /\ pos' = enc.data_offset + Len(table)
           /\ enc' = [enc EXCEPT !.object_data_length = length,
                                 !.seeks = Append(@, << pos, enc.data_offset >>)]
    /\ pc' = "enc_trailer"
    /\ UNCHANGED << map, dec, result >>

\* SerializeTrailer without the seek to the end: the export signature is
\* written where the offsets left the cursor.
SerializeTrailerAtCursor ==
    /\ pc = "enc_trailer"
    /\ LET bs == write_string(ExportSignature)
       IN  /\ stream' = write_all(stream, pos, bs)
           /\ pos' = pos + Len(bs)
           /\ enc' = [enc EXCEPT !.seeks = Append(@, << pos, pos >>)]
    /\ pc' = "encoded"
    /\ result' = Returned("serialize", EmptyMap)
    /\ UNCHANGED << map, dec >>

\* The seek to the end and the export signature (parser.rs 182-185).
SerializeTrailer ==
    /\ pc = "enc_trailer"
    /\ LET bs == write_string(ExportSignature)
       IN  /\ stream' = write_all(stream, Len(stream), bs)
           /\ pos' = Len(stream) + Len(bs)
           /\ enc' = [enc EXCEPT !.seeks = Append(@, << pos, Len(stream) >>)]
    /\ pc' = "encoded"
    /\ result' = Returned("serialize", EmptyMap)
    /\ UNCHANGED << map, dec >>

(***************************************************************************)
(* SSPMSerializer::deserialize, one action per section it reads, one per   *)
(* schema entry and one per record of the record stream.                   *)
(***************************************************************************)
\* An entry of the archive a PHXM map is: present or not, and its bytes.
NoEntry ==
    [present |-> FALSE, bytes |-> << >>]

EntryOf(bs) ==
    [present |-> TRUE, bytes |-> bs]

\* PHXMMetadata (parser.rs 483-496), the fields of metadata.json.
NoMetadata ==
    [id |-> << >>, has_audio |-> FALSE, has_cover |-> FALSE, has_video |-> FALSE,
     artist |-> << >>, title |-> << >>, mappers |-> << >>, difficulty |-> 0,
     difficulty_name |-> << >>, notes_count |-> << 0, 0, 0, 0 >>]

\* What PHXMParser::deserialize is given: whether it is a zip archive, the
\* metadata.json entry (json is "ok", "utf8", "syntax" or "eof": how
\* read_to_string and serde_json take its text), objects.phxmo and the media entries.
NoFolder ==
    [is_zip |-> FALSE, metadata |-> NoEntry, json |-> "ok", fields |-> NoMetadata,
     objects |-> NoEntry, audio |-> NoEntry, cover |-> NoEntry, video |-> NoEntry]

\* The locals of PHXMParser::deserialize (parser.rs 504-511, 545-548).
PhxmLocals ==
    [folder |-> NoFolder, metadata |-> NoMetadata, audio_buf |-> << >>,
     cover_buf |-> << >>, video_buf |-> << >>, type_count |-> << 0, 0, 0, 0 >>,
     note_count |-> << 0, 0, 0, 0 >>, next_note |-> 0, notes |-> << >>]

DecInit ==
    [millisecond |-> << 0, 0, 0, 0 >>, note_count |-> << 0, 0, 0, 0 >>,
     object_count |-> << 0, 0, 0, 0 >>, has_audio |-> FALSE, has_cover |-> FALSE,
     custom_data_offset |-> Zeros(8), custom_data_length |-> Zeros(8),
     audio_data_offset |-> Zeros(8), audio_data_length |-> Zeros(8),
     cover_data_offset |-> Zeros(8), cover_data_length |-> Zeros(8),
     object_definition_offset |-> Zeros(8), object_definition_length |-> Zeros(8),
     object_data_offset |-> Zeros(8), object_data_length |-> Zeros(8),
     map_id |-> << >>, song_name |-> << >>, mappers |-> << >>, custom_data |-> << >>,
     audio_buf |-> << >>, audio_far |-> FALSE, cover_buf |-> << >>, cover_far |-> FALSE,
     object_definitions |-> << >>, schema_count |-> 0, next_entry |-> 0,
     seek_target |-> Zeros(8), object_section_end |-> Zeros(8),
     notes |-> << >>, objects |-> << >>, phxm |-> PhxmLocals]

\* A panic inside a read, carried to the call like a failure.
Panics(msg, p) ==
    Fail("Panic", msg, p)

\* reader.seek(SeekFrom::Start(offset)): the cursor after it.
SeekStart(offset) ==
    WideToNat(offset)

\* reader.stream_position() as a u64, after the last seek to `target`.
StreamPosition(p, target) ==
    IF p < FarPos THEN ToLe(p, 8) ELSE target

\* HeaderChecked with the signature compared on its first three bytes only.
HeaderCheckedShortMagic(d, header) ==
    IF ~header.ok THEN header
    ELSE IF SubSeq(header.v, 1, 3) # SubSeq(Magic, 1, 3)
    THEN Fail("InvalidData", "Incorrect file signature", header.p)
    ELSE IF SubSeq(header.v, 5, 6) # VersionBytes
    THEN Fail("InvalidData", "Unsupported SSPM version", header.p)
    ELSE Ok(d, header.p)

\* HeaderChecked with the version compared on its low byte only.
HeaderCheckedLowByte(d, header) ==
    IF ~header.ok THEN header
    ELSE IF SubSeq(header.v, 1, 4) # Magic
    THEN Fail("InvalidData", "Incorrect file signature", header.p)
    ELSE IF header.v[5] # VersionBytes[1]
    THEN Fail("InvalidData", "Unsupported SSPM version", header.p)
    ELSE Ok(d, header.p)

\* The two checks of the 10-byte header (parser.rs 198-212).
HeaderChecked(d, header) ==
    IF ~header.ok THEN header
    ELSE IF SubSeq(header.v, 1, 4) # Magic
    THEN Fail("InvalidData", "Incorrect file signature", header.p)
    ELSE IF SubSeq(header.v, 5, 6) # VersionBytes
    THEN Fail("InvalidData", "Unsupported SSPM version", header.p)
    ELSE Ok(d, header.p)

\* The header (parser.rs 195-212).
ReadHeader(d, s, p) ==
    HeaderChecked(d, read_exact(s, p, 10))

\* The locals the static metadata and the offset table set (r: their read).
StaticInto(d, r) ==
    IF ~r.ok THEN r
    ELSE Ok([d EXCEPT !.millisecond = r.v[2],
                      !.note_count = r.v[3],
                      !.object_count = r.v[4],
                      !.has_audio = (r.v[7][1] = 1),
                      !.has_cover = (r.v[8][1] = 1),
                      !.custom_data_offset = r.v[10],
                      !.custom_data_length = r.v[11],
                      !.audio_data_offset = r.v[12],
                      !.audio_data_length = r.v[13],
                      !.cover_data_offset = r.v[14],
                      !.cover_data_length = r.v[15],
                      !.object_definition_offset = r.v[16],
                      !.object_definition_length = r.v[17],
                      !.object_data_offset = r.v[18],
                      !.object_data_length = r.v[19]], r.p)

\* The static metadata and the offset table (parser.rs 214-234): a 20-byte
\* hash, three u32, a u8, a u16, three bool, ten u64.
ReadStatic(d, s, p) ==
    StaticInto(d, ReadFields(s, p,
                             << 20, 4, 4, 4, 1, 2, 1, 1, 1, 8, 8, 8, 8, 8, 8, 8, 8, 8, 8 >>,
                             << >>))

\* n strings in a row, appended to acc.
RECURSIVE ReadStrings(_, _, _, _)
RECURSIVE ReadStringsNext(_, _, _, _)
ReadStrings(s, p, n, acc) ==
    IF n = 0 THEN Ok(acc, p) ELSE ReadStringsNext(s, n, acc, read_string(s, p))

ReadStringsNext(s, n, acc, r) ==
    IF ~r.ok THEN r ELSE ReadStrings(s, r.p, n - 1, Append(acc, r.v))

\* The mappers, after their count (parser.rs 239-244).
MappersAfter(s, acc, count) ==
    IF ~count.ok THEN count ELSE ReadStrings(s, count.p, count.v, acc)

\* The mapper count and the mappers, after the three names.
StringsAfter(s, names) ==
    IF ~names.ok THEN names ELSE MappersAfter(s, names.v, read_u16(s, names.p))

StringsInto(d, r) ==
    IF ~r.ok THEN r
    ELSE Ok([d EXCEPT !.map_id = r.v[1],
                      !.song_name = r.v[3],
                      !.mappers = SubSeq(r.v, 4, Len(r.v))], r.p)

\* The id, the map name, the song name and the mappers (parser.rs 236-244).
ReadStringSection(d, s, p) ==
    StringsInto(d, StringsAfter(s, ReadStrings(s, p, 3, << >>)))

\* HashMap::insert.
Insert(m, k, v) ==
    [x \in (DOMAIN m) \cup {k} |-> IF x = k THEN v ELSE m[x]]

\* n custom data fields: a name, a type tag, a value of that type, inserted
\* under the name (parser.rs 250-256).
RECURSIVE ReadCustomData(_, _, _, _)
RECURSIVE CustomTag(_, _, _, _)
RECURSIVE CustomType(_, _, _, _, _)
RECURSIVE CustomValue(_, _, _, _, _, _)
RECURSIVE CustomInsert(_, _, _, _, _)
ReadCustomData(s, p, n, acc) ==
    IF n = 0 THEN Ok(acc, p) ELSE CustomTag(s, n, acc, read_string(s, p))

CustomTag(s, n, acc, name) ==
    IF ~name.ok THEN name ELSE CustomType(s, n, acc, name.v, read_u8(s, name.p))

CustomType(s, n, acc, name, tag) ==
    IF ~tag.ok THEN tag ELSE CustomValue(s, n, acc, name, tag.p, from_sspm(tag.v))

CustomValue(s, n, acc, name, p, data_type) ==
    IF ~data_type.ok THEN Fail(data_type.err, data_type.msg, p)
    ELSE CustomInsert(s, n, acc, name, parse_types(data_type.v, s, p))

CustomInsert(s, n, acc, name, value) ==
    IF ~value.ok THEN value
    ELSE ReadCustomData(s, value.p, n - 1, Insert(acc, name, value.v))

CustomAfter(s, count) ==
    IF ~count.ok THEN count ELSE ReadCustomData(s, count.p, count.v, << >>)

CustomInto(d, r) ==
    IF ~r.ok THEN r ELSE Ok([d EXCEPT !.custom_data = r.v], r.p)

\* The custom data block (parser.rs 246-256).
ReadCustomSection(d, s, p) ==
    CustomInto(d, CustomAfter(s, read_u16(s, p)))

\* vec![0u8; n] with n above isize::MAX panics.
CapacityOverflow(length) ==
    length[8] >= 128

\* The buffer vec![0u8; length] after `if flag { seek(offset); read_exact }`:
\* the bytes read when the flag is set, the zeros it was made of when not.
GatedRead(flag, offset, length, s, p) ==
    IF flag THEN read_exact(s, SeekStart(offset), WideToNat(length))
    ELSE Ok(IF Fits(length) THEN Zeros(FromLe(length)) ELSE << >>, p)

MediaInto(d, audio_buf, cover) ==
    IF ~cover.ok THEN cover
    ELSE Ok([d EXCEPT !.audio_buf = audio_buf,
                      !.audio_far = ~Fits(d.audio_data_length),
                      !.cover_buf = cover.v,
                      !.cover_far = ~Fits(d.cover_data_length),
                      !.seek_target = IF d.has_cover THEN d.cover_data_offset
                                      ELSE IF d.has_audio THEN d.audio_data_offset
                                      ELSE @], cover.p)

CoverAfter(d, s, audio) ==
    IF ~audio.ok THEN audio
    ELSE MediaInto(d, audio.v,
                   GatedRead(d.has_cover, d.cover_data_offset, d.cover_data_length, s, audio.p))

\* The two buffers and the gated reads into them (parser.rs 258-269).
ReadMedia(d, s, p) ==
    IF CapacityOverflow(d.audio_data_length) \/ CapacityOverflow(d.cover_data_length)
    THEN Panics("capacity overflow", p)
    ELSE CoverAfter(d, s,
                    GatedRead(d.has_audio, d.audio_data_offset, d.audio_data_length, s, p))

SchemaCountInto(d, count) ==
    IF ~count.ok THEN count
    ELSE Ok([d EXCEPT !.schema_count = count.v,
                      !.next_entry = 0,
                      !.seek_target = d.object_definition_offset], count.p)

\* The seek to the schema table and its entry count (parser.rs 271-275).
ReadSchemaCount(d, s) ==
    SchemaCountInto(d, read_u8(s, SeekStart(d.object_definition_offset)))

\* n type tags in a row, each through from_sspm (parser.rs 283-288).
RECURSIVE ReadSlots(_, _, _, _)
RECURSIVE SlotOf(_, _, _, _)
RECURSIVE SlotsNext(_, _, _, _, _)
ReadSlots(s, p, n, acc) ==
    IF n = 0 THEN Ok(acc, p) ELSE SlotOf(s, n, acc, read_u8(s, p))

SlotOf(s, n, acc, obj_type) ==
    IF ~obj_type.ok THEN obj_type
    ELSE SlotsNext(s, n, acc, obj_type.p, from_sspm(obj_type.v))

SlotsNext(s, n, acc, p, data) ==
    IF ~data.ok THEN Fail(data.err, data.msg, p)
    ELSE ReadSlots(s, p, n - 1, Append(acc, data.v))

\* What the byte after the slot tags does (parser.rs 291):
\* assert_eq!(reader.read_u8()?, 0x00) passes.
TerminatorAccepted(byte) ==
    byte = 0

\* The entry, once the byte after its slot tags is read (parser.rs 290-300).
EntryChecked(name, definitions, terminator) ==
    IF ~terminator.ok THEN terminator
    ELSE IF ~TerminatorAccepted(terminator.v)
    THEN Panics("assertion left == right failed", terminator.p)
    ELSE Ok([name |-> name, millisecond |-> << 0, 0, 0, 0 >>, definitions |-> definitions],
            terminator.p)

EntryTerminator(s, name, definitions) ==
    IF ~definitions.ok THEN definitions
    ELSE EntryChecked(name, definitions.v, read_u8(s, definitions.p))

EntrySlots(s, name, values) ==
    IF ~values.ok THEN values
    ELSE EntryTerminator(s, name, ReadSlots(s, values.p, values.v, << >>))

EntryAfterName(s, name) ==
    IF ~name.ok THEN name ELSE EntrySlots(s, name.v, read_u8(s, name.p))

\* One schema entry (parser.rs 278-300): the name, the slot count, the slot
\* tags and the terminator.
ReadEntry(s, p) ==
    EntryAfterName(s, read_string(s, p))

\* EntryInto with the entries keyed from 1.
EntryIntoFromOne(d, entry) ==
    IF ~entry.ok THEN entry
    ELSE Ok([d EXCEPT !.object_definitions = Insert(@, d.next_entry + 1, entry.v),
                      !.next_entry = @ + 1], entry.p)

EntryInto(d, entry) ==
    IF ~entry.ok THEN entry
    ELSE Ok([d EXCEPT !.object_definitions = Insert(@, d.next_entry, entry.v),
                      !.next_entry = @ + 1], entry.p)

\* The loop condition of the record stream (parser.rs 309).
InRecordSection(d, p) ==
    U64Less(StreamPosition(p, d.seek_target), d.object_section_end)

\* Whether a decoded record is projected to a Note (parser.rs 319-320).
IsNoteName(name) ==
    name = SspNote

\* The record, after its timestamp and schema id (parser.rs 313-317);
\* object_definitions[&definition] panics when the id is no key.
RecordAfterHead(defs, s, head) ==
    IF ~head.ok THEN head
    ELSE IF head.v[2][1] \notin DOMAIN defs
    THEN Panics("no entry found for key", head.p)
    ELSE parse_definitions(defs[head.v[2][1]], head.v[1], s, head.p)

\* One record (parser.rs 310-317): a u32 timestamp, a u8 schema id, the fields.
ReadRecord(defs, s, p) ==
    RecordAfterHead(defs, s, ReadFields(s, p, << 4, 1 >>, << >>))

NoteInto(d, p, note) ==
    IF ~note.ok THEN Fail(note.err, note.msg, p)
    ELSE Ok([d EXCEPT !.notes = Append(@, note.v)], p)

\* RecordInto with a note record kept among the generic records as well.
RecordIntoBoth(d, object) ==
    IF ~object.ok THEN object
    ELSE IF IsNoteName(object.v.name)
    THEN NoteInto([d EXCEPT !.objects = Append(@, object.v)], object.p,
                  from_definition(object.v))
    ELSE Ok([d EXCEPT !.objects = Append(@, object.v)], object.p)

\* Where a decoded record goes (parser.rs 319-322).
RecordInto(d, object) ==
    IF ~object.ok THEN object
    ELSE IF IsNoteName(object.v.name) THEN NoteInto(d, object.p, from_definition(object.v))
    ELSE Ok([d EXCEPT !.objects = Append(@, object.v)], object.p)

\* The Map deserialize returns (parser.rs 325-345).
DecodedMap(d) ==
    [id |-> d.map_id, length |-> d.millisecond, title |-> d.song_name,
     artists |-> << >>, difficulty |-> 0, difficulty_name |-> << >>,
     mappers |-> d.mappers,
     audio |-> IF d.audio_buf = << >> /\ ~d.audio_far THEN NoAudio
               ELSE [some |-> TRUE, bytes |-> d.audio_buf, far |-> d.audio_far],
     cover |-> d.cover_buf, cover_far |-> d.cover_far,
     notes |-> d.notes, objects |-> d.objects, format |-> "SSPM"]

\* A step of deserialize that read r: on success the locals and the cursor
\* move on to the next section; on failure the call returns Err, on a panic
\* the process ends, the cursor where the failing read left it.
Advance(r, next_pc) ==
    IF r.ok
    THEN /\ dec' = r.v
         /\ pos' = r.p
         /\ pc' = next_pc
         /\ UNCHANGED << map, stream, enc, result >>
    ELSE /\ result' = IF r.err = "Panic" THEN Panicked("deserialize", r.msg)
                      ELSE Failed("deserialize", r)
         /\ pc' = "done"
         /\ pos' = r.p
         /\ UNCHANGED << map, stream, enc, dec >>

DeserializeHeader ==
    /\ pc = "dec_header"
    /\ Advance(ReadHeader(dec, stream, pos), "dec_static")

DeserializeStatic ==
    /\ pc = "dec_static"
    /\ Advance(ReadStatic(dec, stream, pos), "dec_strings")

DeserializeStrings ==
    /\ pc = "dec_strings"
    /\ Advance(ReadStringSection(dec, stream, pos), "dec_custom")

DeserializeCustomData ==
    /\ pc = "dec_custom"
    /\ Advance(ReadCustomSection(dec, stream, pos), "dec_media")

\* A buffer of 2^30 bytes or more either cannot be allocated, which ends the
\* process, or is left to the reads.
DeserializeMedia ==
    /\ pc = "dec_media"
    /\ \/ Advance(ReadMedia(dec, stream, pos), "dec_schema")
       \/ /\ ~Fits(dec.audio_data_length) \/ ~Fits(dec.cover_data_length)
          /\ Advance(Panics("memory allocation failed", pos), "dec_schema")

DeserializeSchemaCount ==
    /\ pc = "dec_schema"
    /\ Advance(ReadSchemaCount(dec, stream), "dec_schema_entry")

DeserializeSchemaEntry ==
    /\ pc = "dec_schema_entry"
    /\ dec.next_entry < dec.schema_count
    /\ Advance(EntryInto(dec, ReadEntry(stream, pos)), "dec_schema_entry")

\* After the last entry: the seek to the record stream and the end of the
\* section, stream_position + object_data_length (parser.rs 303-304).  The
\* u64 addition panics on overflow in a build with overflow checks and wraps
\* in one without; the seek has moved the cursor by then.
RecordsStart(d, wraps) ==
    IF U64Add(d.object_data_offset, d.object_data_length).overflow /\ ~wraps
    THEN Panics("attempt to add with overflow", SeekStart(d.object_data_offset))
    ELSE Ok([d EXCEPT !.seek_target = d.object_data_offset,
                      !.object_section_end =
                          U64Add(d.object_data_offset, d.object_data_length).sum],
            SeekStart(d.object_data_offset))

DeserializeRecordsStart ==
    /\ pc = "dec_schema_entry"
    /\ dec.next_entry >= dec.schema_count
    /\ \E wraps \in BOOLEAN : Advance(RecordsStart(dec, wraps), "dec_records")

DeserializeRecord ==
    /\ pc = "dec_records"
    /\ InRecordSection(dec, pos)
    /\ Advance(RecordInto(dec, ReadRecord(dec.object_definitions, stream, pos)), "dec_records")

\* The end of the record stream: the Map is returned.
DeserializeFinish ==
    /\ pc = "dec_records"
    /\ ~InRecordSection(dec, pos)
    /\ result' = Returned("deserialize", DecodedMap(dec))
    /\ pc' = "done"
    /\ UNCHANGED << map, stream, pos, enc, dec >>

\* decode(encode(m)): the bytes serialize wrote are handed to deserialize
\* in a new Cursor.
Reopen ==
    /\ pc = "encoded"
    /\ pos' = 0
    /\ pc' = "dec_header"
    /\ result' = NoResult
    /\ UNCHANGED << map, stream, enc, dec >>

\* Where the record stream serialize wrote ends.
RecordStreamEnd ==
    enc.object_data_offset + enc.object_data_length

\* decode of a proper prefix of encode(m) that ends before the end of the
\* record stream: the first n bytes are handed to deserialize.
ReopenCut ==
    /\ pc = "encoded"
    /\ \E n \in 0..(RecordStreamEnd - 1) : stream' = SubSeq(stream, 1, n)
    /\ pos' = 0
    /\ pc' = "dec_header"
    /\ result' = NoResult
    /\ UNCHANGED << map, enc, dec >>

(***************************************************************************)
(* PHXMParser::deserialize (parser.rs 503-597): the archive's entries,     *)
(* then the note stream of objects.phxmo, one action per note.  In these   *)
(* runs stream and pos are the Cursor over the bytes of objects.phxmo.     *)
(***************************************************************************)
\* ZipArchive::new, by_name("metadata.json"), read_to_string and
\* serde_json::from_str (parser.rs 504, 513-519).  "Zip" stands for the
\* io::Error the zip crate's error is turned into by `?`.
PhxmReadMetadata(l) ==
    IF ~l.folder.is_zip THEN Fail("Zip", "invalid Zip archive", 0)
    ELSE IF ~l.folder.metadata.present
    THEN Fail("Zip", "specified file not found in archive", 0)
    ELSE IF l.folder.json = "utf8"
    THEN Fail("InvalidData", "stream did not contain valid UTF-8", 0)
    ELSE IF l.folder.json = "syntax" THEN Fail("InvalidData", "json", 0)
    ELSE IF l.folder.json = "eof" THEN Fail("UnexpectedEof", "json", 0)
    ELSE Ok([l EXCEPT !.metadata = l.folder.fields], 0)

\* by_name("objects.phxmo") and read_to_end (parser.rs 521-529).
PhxmReadObjects(l) ==
    IF ~l.folder.objects.present
    THEN Fail("Zip", "specified file not found in archive", 0)
    ELSE Ok(l.folder.objects.bytes, 0)

\* One gated read of a media entry (parser.rs 531-543): r holds the locals
\* so far; the entry is read to its end into the buffer when the metadata
\* flag is set.
PhxmGated(r, flag, entry, buffer) ==
    IF ~r.ok \/ ~flag THEN r
    ELSE IF ~entry.present THEN Fail("Zip", "specified file not found in archive", r.p)
    ELSE Ok([r.v EXCEPT ![buffer] = entry.bytes], r.p)

PhxmReadMedia(l, p) ==
    PhxmGated(PhxmGated(PhxmGated(Ok(l, p), l.metadata.has_audio, l.folder.audio,
                                  "audio_buf"),
                        l.metadata.has_cover, l.folder.cover, "cover_buf"),
              l.metadata.has_video, l.folder.video, "video_buf")

\* _type_count and note_count (parser.rs 545-546).
PhxmReadCounts(l, s, p) ==
    LET counts == ReadFields(s, p, << 4, 4 >>, << >>)
    IN  IF ~counts.ok THEN counts
        ELSE Ok([l EXCEPT !.type_count = counts.v[1], !.note_count = counts.v[2]],
                counts.p)

\* A compact axis, `(read_u8()? - 1) as f32` (parser.rs 565-566): r is the
\* read of the byte.  For the byte 0 the subtraction panics in a build with
\* overflow checks and wraps to 255 in one without.
PhxmAxisOf(r, wraps) ==
    IF ~r.ok THEN r
    ELSE IF r.v = 0 /\ ~wraps THEN Panics("attempt to subtract with overflow", r.p)
    ELSE Ok(F32FromInt((r.v + 255) % 256), r.p)

\* One turn of the note loop (parser.rs 550-574): the timestamp, the quantum
\* flag, then two f32 or two bytes.
PhxmReadNote(s, p, wraps) ==
    LET millisecond == read_u32(s, p)
        quantum == read_bool(s, millisecond.p)
        x == IF quantum.v THEN read_f32(s, quantum.p)
             ELSE PhxmAxisOf(read_u8(s, quantum.p), wraps)
        y == IF quantum.v THEN read_f32(s, x.p)
             ELSE PhxmAxisOf(read_u8(s, x.p), wraps)
    IN  IF ~millisecond.ok THEN millisecond
        ELSE IF ~quantum.ok THEN quantum
        ELSE IF ~x.ok THEN x
        ELSE IF ~y.ok THEN y
        ELSE Ok([millisecond |-> millisecond.v, position |-> [x |-> x.v, y |-> y.v]], y.p)

PhxmNoteInto(l, note) ==
    IF ~note.ok THEN note
    ELSE Ok([l EXCEPT !.notes = Append(@, note.v), !.next_note = @ + 1], note.p)

\* notes.last().map_or(0, |n| n.millisecond) with the first note taken.
PhxmLengthFirst(notes) ==
    IF notes = << >> THEN << 0, 0, 0, 0 >> ELSE notes[1].millisecond

\* notes.last().map_or(0, |n| n.millisecond) (parser.rs 585).
PhxmLength(notes) ==
    IF notes = << >> THEN << 0, 0, 0, 0 >> ELSE notes[Len(notes)].millisecond

\* The Map PHXMParser::deserialize returns (parser.rs 576-596).
PhxmMap(l) ==
    [id |-> l.metadata.id, length |-> PhxmLength(l.notes), title |-> l.metadata.title,
     artists |-> << l.metadata.artist >>, difficulty |-> l.metadata.difficulty,
     difficulty_name |-> l.metadata.difficulty_name, mappers |-> l.metadata.mappers,
     audio |-> IF l.audio_buf = << >> THEN NoAudio ELSE SomeAudio(l.audio_buf),
     cover |-> l.cover_buf, cover_far |-> FALSE,
     notes |-> l.notes, objects |-> << >>, format |-> "PHXM"]

\* A step of PHXMParser::deserialize that read r.
PhxmAdvance(r, next_pc) ==
    IF r.ok
    THEN /\ dec' = [dec EXCEPT !.phxm = r.v]
         /\ pos' = r.p
         /\ pc' = next_pc
         /\ UNCHANGED << map, stream, enc, result >>
    ELSE /\ result' = IF r.err = "Panic" THEN Panicked("phxm_deserialize", r.msg)
                      ELSE Failed("phxm_deserialize", r)
         /\ pc' = "done"
         /\ pos' = r.p
         /\ UNCHANGED << map, stream, enc, dec >>

PhxmMetadata ==
    /\ pc = "phxm_metadata"
    /\ PhxmAdvance(PhxmReadMetadata(dec.phxm), "phxm_objects")

\* The Cursor over the bytes of objects.phxmo (parser.rs 521-529).
PhxmObjects ==
    /\ pc = "phxm_objects"
    /\ IF PhxmReadObjects(dec.phxm).ok
       THEN /\ stream' = PhxmReadObjects(dec.phxm).v
            /\ pos' = 0
            /\ pc' = "phxm_media"
            /\ UNCHANGED << map, enc, dec, result >>
       ELSE /\ result' = Failed("phxm_deserialize", PhxmReadObjects(dec.phxm))
            /\ pc' = "done"
            /\ UNCHANGED << map, stream, pos, enc, dec >>

PhxmMedia ==
    /\ pc = "phxm_media"
    /\ PhxmAdvance(PhxmReadMedia(dec.phxm, pos), "phxm_counts")

PhxmCounts ==
    /\ pc = "phxm_counts"
    /\ PhxmAdvance(PhxmReadCounts(dec.phxm, stream, pos), "phxm_notes")

PhxmNote ==
    /\ pc = "phxm_notes"
    /\ dec.phxm.next_note < WideToNat(dec.phxm.note_count)
    /\ \E wraps \in BOOLEAN :
         PhxmAdvance(PhxmNoteInto(dec.phxm, PhxmReadNote(stream, pos, wraps)), "phxm_notes")

\* After the last note: the Map is returned (parser.rs 576-596).
PhxmFinish ==
    /\ pc = "phxm_notes"
    /\ dec.phxm.next_note >= WideToNat(dec.phxm.note_count)
    /\ result' = Returned("phxm_deserialize", PhxmMap(dec.phxm))
    /\ pc' = "done"
    /\ UNCHANGED << map, stream, pos, enc, dec >>

(***************************************************************************)
(* The inputs.  serialize is given a Map; deserialize is given either what *)
(* serialize wrote or a file from elsewhere, laid out as section 6 of the  *)
(* specification describes and possibly malformed.                         *)
(***************************************************************************)
\* The most notes a Map given to serialize holds.
MaxNotes ==
    2

\* The most mappers a Map given to serialize holds.
MaxMappers ==
    2

\* The most records the record stream of a file from elsewhere holds.
MaxRecords ==
    2

Vec2(x, y) ==
    [x |-> x, y |-> y]

\* 0.5, 1.25 and 1.004 as f32.
Half ==
    << 0, 0, 0, 63 >>

OneAndQuarter ==
    << 0, 0, 160, 63 >>

OnePointZeroZeroFour ==
    << 18, 131, 128, 63 >>

Note(ms, position) ==
    [millisecond |-> ToLe(ms, 4), position |-> position]

\* Positions: small and integral, at the edge of a byte, fractional, beyond
\* a byte on either axis, nearly integral, negative.
Notes ==
    { Note(1000, Vec2(F32FromInt(3), F32FromInt(4))),
      Note(0, Vec2(F32FromInt(0), F32FromInt(254))),
      Note(70000, Vec2(Half, OneAndQuarter)),
      Note(1000, Vec2(F32FromInt(255), F32FromInt(0))),
      Note(4000, Vec2(F32FromInt(0), F32FromInt(255))),
      Note(2000, Vec2(OnePointZeroZeroFour, F32FromInt(2))),
      Note(3000, Vec2(F32FromInt(-1), F32FromInt(7))) }

\* All sequences over S of length at most n.
RECURSIVE SeqsUpTo(_, _)
SeqsUpTo(S, n) ==
    IF n = 0 THEN { << >> }
    ELSE LET shorter == SeqsUpTo(S, n - 1)
         IN  shorter \cup { Append(q, x) : q \in { r \in shorter : Len(r) = n - 1 }, x \in S }

\* The mappers "a", "b", ...: the first n of them.
MapperList(n) ==
    [i \in 1..n |-> << 96 + i >>]

\* A generic record as a Map holds it in `objects`.
SomeObject ==
    [name |-> << 120 >>, millisecond |-> ToLe(500, 4), definitions |-> << Value("U8", 5) >>]

BaseMap ==
    [EmptyMap EXCEPT !.id = << 105, 100 >>, !.length = ToLe(5000, 4),
                     !.title = << 84 >>, !.difficulty = 3, !.mappers = MapperList(1)]

\* Maps that differ in their notes.
NoteMaps ==
    { [BaseMap EXCEPT !.notes = ns] : ns \in SeqsUpTo(Notes, MaxNotes) }

\* Maps that differ in everything else: title (empty, or "n" and a two-byte
\* character), difficulty name, mappers, audio, cover, generic records.
MetaMaps ==
    { [BaseMap EXCEPT !.title = t, !.difficulty_name = d, !.mappers = MapperList(k),
                      !.audio = a, !.cover = c, !.objects = o, !.notes = ns] :
        t \in { << >>, << 110, 195, 169 >> },
        d \in { << >>, << 104, 105 >> },
        k \in 0..MaxMappers,
        a \in { NoAudio, SomeAudio(<< >>), SomeAudio(<< 1, 255 >>) },
        c \in { << >>, << 9 >> },
        o \in { << >>, << SomeObject >> },
        ns \in { << >>,
                 << Note(1000, Vec2(F32FromInt(3), F32FromInt(4))) >>,
                 << Note(70000, Vec2(Half, OneAndQuarter)),
                    Note(1000, Vec2(F32FromInt(3), F32FromInt(4))) >> } }

Maps ==
    NoteMaps \cup MetaMaps

\* A schema entry of a file: a name, slot type tags and the byte after them.
Entry(name, slots, terminator) ==
    [name |-> name, slots |-> slots, terminator |-> terminator]

EntryBytes(e) ==
    write_string(e.name) \o << Len(e.slots) >> \o e.slots \o << e.terminator >>

RECURSIVE Concat(_)
Concat(list) ==
    IF list = << >> THEN << >> ELSE Head(list) \o Concat(Tail(list))

TableBytes(table) ==
    << Len(table) >> \o Concat([i \in 1..Len(table) |-> EntryBytes(table[i])])

\* The bytes of one field of a record, by type tag; a 2D vector is compact
\* in odd records and exact in even ones.
FieldBytes(tag, index) ==
    CASE tag = 1 -> << 5 >>
      [] tag = 2 -> << 1, 2 >>
      [] tag = 3 -> << 1, 2, 3, 4 >>
      [] tag = 4 -> << 1, 2, 3, 4, 5, 6, 7, 200 >>
      [] tag = 5 -> Half
      [] tag = 6 -> << 0, 0, 0, 0, 0, 0, 240, 63 >>
      [] tag = 7 -> IF index % 2 = 1 THEN << 0, 4, 5 >>
                    ELSE << 1 >> \o Half \o OneAndQuarter
      [] tag = 8 -> << 2, 0, 9, 255 >>
      [] tag = 9 -> << 1, 0, 97 >>
      [] tag = 10 -> << 1, 0, 0, 0, 7 >>
      [] tag = 11 -> << 2, 0, 0, 0, 195, 169 >>
      [] OTHER -> << >>

\* The bytes of the index-th record: the timestamp 1000 * index, the schema
\* id and one field per slot of its schema entry (none when there is none).
RecordBytes(table, id, index) ==
    ToLe(1000 * index, 4) \o << id >>
    \o (IF id < Len(table)
        THEN Concat([j \in 1..Len(table[id + 1].slots) |->
                        FieldBytes(table[id + 1].slots[j], index)])
        ELSE << >>)

StreamBytes(table, ids) ==
    Concat([i \in 1..Len(ids) |-> RecordBytes(table, ids[i], i)])

\* A file: the sections in the order of the layout, the offset table
\* pointing at them.
FileOf(f) ==
    LET strings == write_string(f.id) \o write_string(f.name) \o write_string(f.song)
                   \o write_u16(Len(f.mappers)) \o WriteStrings(f.mappers)
        custom_at == 128 + Len(strings)
        audio_at == custom_at + Len(f.custom)
        cover_at == audio_at + Len(f.audio)
        schema_at == cover_at + Len(f.cover)
        schema == TableBytes(f.table)
        records_at == schema_at + Len(schema)
        records == StreamBytes(f.table, f.ids)
    IN  f.magic \o f.version \o Zeros(4)
        \o Zeros(20) \o ToLe(f.length, 4) \o f.note_count \o f.object_count
        \o << 0 >> \o << 0, 0 >>
        \o write_bool(f.has_audio) \o write_bool(f.has_cover) \o write_bool(FALSE)
        \o write_u64(custom_at) \o write_u64(Len(f.custom))
        \o write_u64(audio_at) \o write_u64(Len(f.audio))
        \o write_u64(cover_at) \o write_u64(Len(f.cover))
        \o write_u64(schema_at) \o write_u64(Len(schema))
        \o write_u64(records_at) \o write_u64(Len(records))
        \o strings \o f.custom \o f.audio \o f.cover \o schema \o records

\* "alice"
Alice ==
    << 97, 108, 105, 99, 101 >>

NoteEntry ==
    Entry(SspNote, << 7 >>, 0)

\* The minimal file: one mapper, no custom data, no media, the note schema
\* and one compact record.
MinimalFile ==
    [magic |-> Magic, version |-> VersionBytes, length |-> 1000,
     note_count |-> ToLe(1, 4), object_count |-> ToLe(1, 4),
     has_audio |-> FALSE, has_cover |-> FALSE,
     id |-> << 105, 100 >>, name |-> << 78 >>, song |-> << 83 >>, mappers |-> << Alice >>,
     custom |-> write_u16(0), audio |-> << >>, cover |-> << >>,
     table |-> << NoteEntry >>, ids |-> << 0 >>]

\* Schema entries: the note name and another name ("x"), each with slot
\* lists of several shapes.
EntryShapes ==
    { Entry(n, sl, 0) :
        n \in { SspNote, << 120 >> },
        sl \in { << >>, << 7 >>, << 1 >>, << 7, 1 >>, << 1, 2, 3, 4 >>, << 5, 6, 7 >>,
                 << 8, 9, 10, 11 >> } }

\* Schema tables of up to two entries.
SchemaTables ==
    { << >> } \cup { << e >> : e \in EntryShapes }
    \cup { << a, b >> : a \in EntryShapes, b \in EntryShapes }

\* Files that differ in their schema table and in the schema ids of their
\* records (0, 1 and 2: a table of two entries registers 0 and 1).
SchemaFiles ==
    { FileOf([MinimalFile EXCEPT !.table = t, !.ids = ids]) :
        t \in SchemaTables, ids \in SeqsUpTo(0..2, MaxRecords) }

\* Files whose only schema entry ends in a byte other than 0x00.
TerminatorFiles ==
    { FileOf([MinimalFile EXCEPT !.table = << Entry(n, sl, term) >>, !.ids = ids]) :
        n \in { SspNote, << 120 >> }, sl \in { << >>, << 7 >>, << 1, 2 >> },
        term \in { 1, 7, 255 }, ids \in { << >>, << 0 >> } }

\* The minimal file with another signature or version, whole or cut short.
HeaderFiles ==
    { SubSeq(FileOf([MinimalFile EXCEPT !.magic = m, !.version = v]), 1, n) :
        m \in { Magic, << 83, 83, 43, 77 >>, << 115, 83, 43, 109 >>, << 83, 83, 45, 109 >>,
                << 83, 0, 43, 109 >> },
        v \in { VersionBytes, << 3, 0 >>, << 2, 1 >>, << 1, 0 >>, << 0, 2 >> },
        n \in (0..12) \cup { Len(FileOf(MinimalFile)) } }

\* The bytes with those at at+1 .. at+Len(new) replaced.
Patch(bytes, at, new) ==
    SubSeq(bytes, 1, at) \o new \o SubSeq(bytes, at + Len(new) + 1, Len(bytes))

\* Where the k-th u64 of the offset table starts (k from 0): after the
\* header (10 bytes) and the static metadata (38 bytes).
OffsetSlot(k) ==
    48 + 8 * k

\* The minimal file with one length or offset of the table (audio length,
\* cover length, record offset, record length) replaced: by 3, by 2^32, by
\* 2^62, by 2^63 and by 2^64 - 1.
OffsetFiles ==
    { Patch(FileOf(MinimalFile), OffsetSlot(k), v) :
        k \in { 3, 5, 8, 9 },
        v \in { << 3, 0, 0, 0, 0, 0, 0, 0 >>, << 0, 0, 0, 0, 1, 0, 0, 0 >>,
                << 0, 0, 0, 0, 0, 0, 0, 64 >>, << 0, 0, 0, 0, 0, 0, 0, 128 >>,
                << 255, 255, 255, 255, 255, 255, 255, 255 >> } }

\* The minimal file with the position (3, 4) in compact form: as serialize
\* writes it (bytes 4, 5) and as deserialize reads it back to (3, 4)
\* (bytes 5, 6).
MinimalStream ==
    FileOf(MinimalFile)

MinimalStreamAsRead ==
    Patch(MinimalStream, Len(MinimalStream) - 2, << 5, 6 >>)

MinimalFiles ==
    { MinimalStream, MinimalStreamAsRead }

\* Schema tables with a nested-sequence slot (0x0C) or a tag no kind has,
\* alone, after or before a slot that is read, in the first or the second
\* entry; with no record and with records of each entry.
TagTables ==
    LET shapes == { << 12 >>, << 7, 12 >>, << 12, 7 >>, << 0 >>, << 13 >>, << 1, 255 >>,
                    << 0, 12 >> }
    IN  { << Entry(n, sl, 0) >> : n \in { SspNote, << 120 >> }, sl \in shapes }
        \cup { << NoteEntry, Entry(<< 120 >>, sl, 0) >> : sl \in shapes }

TagFiles ==
    { FileOf([MinimalFile EXCEPT !.table = t, !.ids = ids]) :
        t \in TagTables, ids \in { << >>, << 0 >>, << 1 >>, << 0, 1 >> } }

\* A custom data field: its name ("k" and the tag's letter), its type tag
\* and a value of that type (none for a tag that has none).
CustomField(tag) ==
    write_string(<< 107, 97 + (tag % 26) >>) \o << tag >> \o FieldBytes(tag, 1)

\* The minimal file with one or two custom data fields: of kinds that are
\* read, of the nested-sequence kind, of tags no kind has.
CustomFiles ==
    { FileOf([MinimalFile EXCEPT
                !.custom = write_u16(Len(tags))
                           \o Concat([i \in 1..Len(tags) |-> CustomField(tags[i])])]) :
        tags \in { << 9 >>, << 1 >>, << 7, 11 >>, << 0 >>, << 12 >>, << 13 >>, << 255 >>,
                   << 9, 12 >>, << 7, 0 >>, << 12, 9 >>, << 8, 10, 200 >> } }

\* A record of objects.phxmo at index i: compact, compact with a zero byte
\* on x or on y, exact, and compact under a flag byte that is neither 0 nor 1.
PhxmRecordBytes(kind, i) ==
    ToLe(1000 * i, 4)
    \o CASE kind = "compact" -> << 0, 4, 5 >>
         [] kind = "zero_x" -> << 0, 0, 7 >>
         [] kind = "zero_y" -> << 0, 9, 0 >>
         [] kind = "exact" -> << 1 >> \o Half \o OneAndQuarter
         [] kind = "flag_2" -> << 2, 1, 255 >>

PhxmRecordKinds ==
    { "compact", "zero_x", "zero_y", "exact", "flag_2" }

\* objects.phxmo: a type count, a declared note count and the records; the
\* count is that of the records, one more, one less, or 2^32 - 1, and the
\* last byte may be missing.
PhxmStreams ==
    { SubSeq(bs, 1, Len(bs) - cut) :
        bs \in { ToLe(7, 4) \o count \o Concat([i \in 1..Len(kinds) |->
                                                  PhxmRecordBytes(kinds[i], i)]) :
                   kinds \in SeqsUpTo(PhxmRecordKinds, MaxRecords),
                   count \in { ToLe(n, 4) : n \in 0..(MaxRecords + 1) }
                             \cup { << 255, 255, 255, 255 >> } },
        cut \in { 0, 1 } }

SomeMetadata ==
    [NoMetadata EXCEPT !.id = << 105, 100 >>, !.artist = << 65 >>, !.title = << 84 >>,
                       !.mappers = << Alice >>, !.difficulty = 3,
                       !.difficulty_name = << 104, 105 >>, !.notes_count = ToLe(5, 4)]

\* A whole archive without media.
SomeFolder ==
    [NoFolder EXCEPT !.is_zip = TRUE, !.metadata = EntryOf(<< 123, 125 >>),
                     !.fields = SomeMetadata,
                     !.objects = EntryOf(ToLe(0, 4) \o ToLe(1, 4)
                                         \o PhxmRecordBytes("compact", 1))]

\* Archives that differ in their note stream; in the media flags of the
\* metadata and the media entries; and archives that are no zip file or
\* lack an entry or hold a metadata.json that is not read.
Folders ==
    { [SomeFolder EXCEPT !.objects = EntryOf(bs)] : bs \in PhxmStreams }
    \cup { [SomeFolder EXCEPT !.fields.has_audio = a, !.fields.has_cover = c,
                              !.fields.has_video = v, !.audio = e, !.cover = f,
                              !.video = g] :
             a \in BOOLEAN, c \in BOOLEAN, v \in BOOLEAN,
             e \in { NoEntry, EntryOf(<< >>), EntryOf(<< 1, 255 >>) },
             f \in { NoEntry, EntryOf(<< 9 >>) }, g \in { NoEntry, EntryOf(<< 8 >>) } }
    \cup { [SomeFolder EXCEPT !.is_zip = FALSE],
           [SomeFolder EXCEPT !.metadata = NoEntry],
           [SomeFolder EXCEPT !.objects = NoEntry] }
    \cup { [SomeFolder EXCEPT !.json = j] : j \in { "utf8", "syntax", "eof" } }

Files ==
    SchemaFiles \cup TerminatorFiles \cup HeaderFiles \cup OffsetFiles \cup MinimalFiles
    \cup TagFiles \cup CustomFiles

(***************************************************************************)
(* The specification: serialize a Map and decode what it wrote, or decode  *)
(* a file from elsewhere.                                                  *)
(***************************************************************************)
Init ==
    /\ enc = EncInit
    /\ result = NoResult
    /\ pos = 0
    /\ \/ /\ pc = "enc_header"
          /\ map \in Maps
          /\ stream = << >>
          /\ dec = DecInit
       \/ /\ pc = "dec_header"
          /\ map = EmptyMap
          /\ stream \in Files
          /\ dec = DecInit
       \/ /\ pc = "phxm_metadata"
          /\ map = EmptyMap
          /\ stream = << >>
          /\ dec \in { [DecInit EXCEPT !.phxm.folder = f] : f \in Folders }

Next ==
    \/ SerializeHeader
    \/ SerializeStrings
    \/ SerializeCustomData
    \/ SerializeMedia
    \/ SerializeSchema
    \/ SerializeNote
    \/ SerializeOffsets
    \/ SerializeTrailer
    \/ Reopen
    \/ ReopenCut
    \/ DeserializeHeader
    \/ DeserializeStatic
    \/ DeserializeStrings
    \/ DeserializeCustomData
    \/ DeserializeMedia
    \/ DeserializeSchemaCount
    \/ DeserializeSchemaEntry
    \/ DeserializeRecordsStart
    \/ DeserializeRecord
    \/ DeserializeFinish
    \/ PhxmMetadata
    \/ PhxmObjects
    \/ PhxmMedia
    \/ PhxmCounts
    \/ PhxmNote
    \/ PhxmFinish

Spec ==
    Init /\ [][Next]_vars

(***************************************************************************)
(* The properties.                                                         *)
(***************************************************************************)
\* The stream deserialize was given is a proper prefix of what serialize
\* wrote for `map`, ending before the end of the record stream.
CutBeforeRecordsEnd ==
    /\ map # EmptyMap
    /\ pc \notin { "enc_header", "enc_strings", "enc_custom", "enc_media", "enc_schema",
                   "enc_notes", "enc_trailer", "encoded" }
    /\ result.op # "serialize"
    /\ Len(stream) < RecordStreamEnd

\* decode(encode(m)) is over: serialize was given `map`, wrote `stream`, and
\* deserialize has returned, failed or panicked on the whole of it.
RoundTrip ==
    pc = "done" /\ result.op = "deserialize" /\ map # EmptyMap /\ ~CutBeforeRecordsEnd

\* A Map that contains only notes.
OnlyNotes(m) ==
    m.objects = << >>

\* An axis that is an integer in 0..254.
SmallIntegral(f) ==
    F32IsSmallInt(f) /\ F32ToInt(f) >= 0 /\ F32ToInt(f) <= 254

\* Two integral axes no more than 1 apart.
WithinOne(f, g) ==
    /\ F32IsSmallInt(f)
    /\ F32IsSmallInt(g)
    /\ F32ToInt(f) - F32ToInt(g) \in { -1, 0, 1 }

\* What C1 says of the i-th note of the Map given and of the Map returned.
SameNote(given, returned) ==
    /\ returned.millisecond = given.millisecond
    /\ Quantum(given.position) => returned.position = given.position
    /\ (SmallIntegral(given.position.x) /\ SmallIntegral(given.position.y))
         => /\ WithinOne(returned.position.x, given.position.x)
            /\ WithinOne(returned.position.y, given.position.y)

\* C1: when a Map that contains only notes is encoded and the bytes decoded,
\* the Map returned has as many notes, in the same order, each with the
\* timestamp of the original; a note written in exact form has exactly the
\* original position, and a note whose axes are integers in 0..254 has a
\* position within 1 of the original on each axis.
C1_NotesRoundTrip ==
    (RoundTrip /\ OnlyNotes(map) /\ result.kind = "Ok")
      => /\ Len(result.map.notes) = Len(map.notes)
         /\ \A i \in 1..Len(map.notes) : SameNote(map.notes[i], result.map.notes[i])

\* A round trip of two notes, one written in exact form and one with small
\* integral axes whose decoded position is not the original one.
C1_Witness ==
    /\ RoundTrip
    /\ OnlyNotes(map)
    /\ result.kind = "Ok"
    /\ Len(result.map.notes) = 2
    /\ \E i, j \in 1..2 :
          /\ Quantum(map.notes[i].position)
          /\ SmallIntegral(map.notes[j].position.x)
          /\ SmallIntegral(map.notes[j].position.y)
          /\ ~Quantum(map.notes[j].position)
          /\ result.map.notes[j].position # map.notes[j].position

\* C2: the Map returned by decode(encode(m)), m containing only notes, has
\* the difficulty display name of m, empty or not.
C2_DifficultyNameRoundTrip ==
    (RoundTrip /\ OnlyNotes(map) /\ result.kind = "Ok")
      => result.map.difficulty_name = map.difficulty_name

\* The audio bytes of an Option<AudioSource>: none when it is None.
AudioBytes(audio) ==
    IF audio.some THEN audio.bytes ELSE << >>

\* C3: for a Map m that contains only notes, decode(encode(m)) succeeds and
\* returns a Map with the title, the mapper list and the audio bytes of m,
\* the audio absent when m has none.
C3_MetadataRoundTrip ==
    (pc = "done" /\ map # EmptyMap /\ OnlyNotes(map) /\ ~CutBeforeRecordsEnd)
      => /\ result.op = "deserialize"
         /\ result.kind = "Ok"
         /\ result.map.title = map.title
         /\ result.map.mappers = map.mappers
         /\ AudioBytes(result.map.audio) = AudioBytes(map.audio)
         /\ ~map.audio.some => ~result.map.audio.some

\* The decoder is about to start the record at the cursor, and the whole
\* of its timestamp and schema id are in the stream.
RecordAhead ==
    /\ pc = "dec_records"
    /\ InRecordSection(dec, pos)
    /\ pos + 5 <= Len(stream)

\* The schema id of that record and its timestamp.
NextSchemaId ==
    stream[pos + 5]

NextTimestamp ==
    SubSeq(stream, pos + 1, pos + 4)

\* decode returns an error value of the kind the code has for malformed
\* content (io::ErrorKind::InvalidData).
ReturnsInvalidData(r) ==
    r.kind = "Err" /\ r.op = "deserialize" /\ r.err = "InvalidData"

\* C4: when the record at the cursor carries a schema id that is no key of
\* the schema registry, the step that decodes it returns an invalid-encoding
\* error value, having read the timestamp and the id and none of the bytes
\* after them; the process is not aborted and no Map is returned.
C4_UnknownSchemaId ==
    [][(RecordAhead /\ NextSchemaId \notin DOMAIN dec.object_definitions)
         => (ReturnsInvalidData(result') /\ pos' = pos + 5)]_vars

\* The run is one of the SSPM codec: no archive was given to the PHXM
\* decoder.
SspmRun ==
    dec.phxm.folder = NoFolder

\* The stream holds four bytes or more and its first four differ from the
\* signature.
SignatureDiffers ==
    Len(stream) >= 4 /\ SubSeq(stream, 1, 4) # Magic

\* deserialize returned the format error for a wrong signature.
SignatureRejected ==
    ReturnsInvalidData(result) /\ result.msg = "Incorrect file signature"

\* deserialize returned the format error for an unsupported version.
VersionRejected ==
    ReturnsInvalidData(result) /\ result.msg = "Unsupported SSPM version"

\* C5, as stated: for a stream of any length whose first four bytes differ
\* from "SS+m", decode ends in the format error.
C5_AnyLength ==
    (pc = "done" /\ result.op = "deserialize" /\ SignatureDiffers)
      => SignatureRejected

\* C5, amended: a stream that holds the 10 bytes of the header and whose
\* first four bytes differ from "SS+m" is rejected with the format error by
\* the step that reads the header: nothing but the header has been consumed
\* and no field after the signature has been interpreted.
C5_HeaderRejection ==
    (SspmRun /\ Len(stream) >= 10 /\ SignatureDiffers)
      => \/ pc = "dec_header" /\ result = NoResult
         \/ /\ pc = "done"
            /\ SignatureRejected
            /\ pos = 10
            /\ dec = DecInit

\* A whole file whose signature is wrong (and whose version is right) has
\* been rejected.
C5_Witness ==
    /\ pc = "done"
    /\ Len(stream) > 12
    /\ SignatureDiffers
    /\ SubSeq(stream, 5, 6) = VersionBytes
    /\ SignatureRejected

\* The stream holds a version field (bytes 4..5) and it is not 2.
VersionDiffers ==
    Len(stream) >= 6 /\ SubSeq(stream, 5, 6) # VersionBytes

\* C6, as stated: for a stream whose version field is not 2, decode ends in
\* a format error.
C6_AnyStream ==
    (pc = "done" /\ result.op = "deserialize" /\ VersionDiffers)
      => (SignatureRejected \/ VersionRejected)

\* C6, amended: a stream that holds the 10 bytes of the header and whose
\* version field is not 2 is rejected with a format error (the one for the
\* version when the signature is right) by the step that reads the header,
\* and no Map is returned, whatever follows the header.
C6_VersionGate ==
    (SspmRun /\ Len(stream) >= 10 /\ VersionDiffers)
      => \/ pc = "dec_header" /\ result = NoResult
         \/ /\ pc = "done"
            /\ IF SignatureDiffers THEN SignatureRejected ELSE VersionRejected
            /\ result.map = EmptyMap
            /\ dec = DecInit

\* A whole, otherwise valid file of version 0x0102 has been rejected.
C6_Witness ==
    /\ pc = "done"
    /\ Len(stream) > 12
    /\ ~SignatureDiffers
    /\ SubSeq(stream, 5, 6) = << 2, 1 >>
    /\ VersionRejected

\* The note count and the total record count of the static metadata of an
\* encoded stream (bytes 34..37 and 38..41).
DeclaredNotes ==
    FromLe(SubSeq(stream, 35, 38))

DeclaredRecords ==
    FromLe(SubSeq(stream, 39, 42))

\* C7: the total record count encode writes is the number of records it
\* writes to the record stream, so that the Map decoded from its output has
\* as many notes and generic records together as the total declared, and as
\* many notes as the note count declared.
C7_RecordCount ==
    /\ pc = "encoded" => DeclaredRecords = enc.next_note - 1
    /\ (RoundTrip /\ result.kind = "Ok")
         => /\ Len(result.map.notes) + Len(result.map.objects) = DeclaredRecords
            /\ Len(result.map.notes) = DeclaredNotes

\* The schema entry of the record at the cursor, its id being registered.
NextEntry ==
    dec.object_definitions[NextSchemaId]

\* The record at the cursor is named ssp_note.
NoteRecordAhead ==
    /\ RecordAhead
    /\ NextSchemaId \in DOMAIN dec.object_definitions
    /\ NextEntry.name = SspNote

\* A schema with exactly one slot, a 2D vector.
SingleVec2(entry) ==
    Len(entry.definitions) = 1 /\ entry.definitions[1].t = "Vec2"

\* C8: a record named ssp_note becomes a Note only when its schema has
\* exactly one slot and that slot is a 2D vector; when the schema registered
\* under that name has any other shape, the step that decodes the record
\* returns an error and adds no note.
C8_NoteShape ==
    [][NoteRecordAhead
         => /\ Len(dec'.notes) > Len(dec.notes) => SingleVec2(NextEntry)
            /\ ~SingleVec2(NextEntry) => (result'.kind = "Err" /\ dec' = dec)]_vars

\* The bytes a decoded field value of a fixed or counted kind was read from.
FieldBytesOf(value) ==
    CASE value.t = "U8" -> << value.v >>
      [] value.t = "U16" -> ToLe(value.v, 2)
      [] value.t \in { "U32", "U64", "F32", "F64" } -> value.v
      [] value.t \in { "Buf", "String" } -> ToLe(Len(value.v), 2) \o value.v
      [] value.t \in { "LongBuf", "LongString" } -> ToLe(Len(value.v), 4) \o value.v
      [] OTHER -> << >>

\* Whether the value is what the bytes hold: for a 2D vector, the two floats
\* after a flag of 1, or the two bytes, each less 2, after another flag.
FieldMatches(value, bytes) ==
    IF value.t = "Vec2"
    THEN IF bytes[1] = 1
         THEN bytes = << 1 >> \o value.v.x \o value.v.y
         ELSE /\ value.v.x = F32FromInt(bytes[2] - 2)
              /\ value.v.y = F32FromInt(bytes[3] - 2)
    ELSE bytes = FieldBytesOf(value)

\* Whether the values, in order, are what the bytes hold, with none left.
RECURSIVE Intact(_, _)
Intact(values, bytes) ==
    IF values = << >> THEN bytes = << >>
    ELSE LET value == Head(values)
             width == IF value.t # "Vec2" THEN Len(FieldBytesOf(value))
                      ELSE IF bytes # << >> /\ bytes[1] = 1 THEN 9 ELSE 3
         IN  /\ Len(bytes) >= width
             /\ FieldMatches(value, SubSeq(bytes, 1, width))
             /\ Intact(Tail(values), SubSeq(bytes, width + 1, Len(bytes)))

\* The record at the cursor decodes successfully in this step.
RecordDecoded ==
    RecordAhead /\ pc' = "dec_records"

\* What C9 says of the generic record a step appended: the timestamp and the
\* name of the record, one populated value per slot of its schema, of the
\* slot's kind and in the slots' order, holding what the stream holds.
Preserved(object, entry) ==
    /\ object.millisecond = NextTimestamp
    /\ object.name = entry.name
    /\ Len(object.definitions) = Len(entry.definitions)
    /\ \A j \in 1..Len(entry.definitions) :
          /\ object.definitions[j].t = entry.definitions[j].t
          /\ object.definitions[j].some
    /\ Intact(object.definitions, SubSeq(stream, pos + 6, pos'))

\* C9: every record that decodes lands in exactly one of the two lists, at
\* its end: a record not named ssp_note is appended to the generic records
\* with its timestamp and one populated value per schema slot in declared
\* order, the notes unchanged; a record named ssp_note is appended to the
\* notes with its timestamp, the generic records unchanged; and the Map
\* returned holds the two lists as the record steps left them.
C9_RecordsPreserved ==
    [][/\ RecordDecoded
          => IF NextEntry.name = SspNote
             THEN /\ dec'.objects = dec.objects
                  /\ Len(dec'.notes) = Len(dec.notes) + 1
                  /\ SubSeq(dec'.notes, 1, Len(dec.notes)) = dec.notes
                  /\ dec'.notes[Len(dec'.notes)].millisecond = NextTimestamp
             ELSE /\ dec'.notes = dec.notes
                  /\ Len(dec'.objects) = Len(dec.objects) + 1
                  /\ SubSeq(dec'.objects, 1, Len(dec.objects)) = dec.objects
                  /\ Preserved(dec'.objects[Len(dec'.objects)], NextEntry)
       /\ (pc = "dec_records" /\ result'.kind = "Ok")
          => /\ result'.map.notes = dec.notes
             /\ result'.map.objects = dec.objects]_vars

\* A file has been decoded to a Map with a note after a generic record of
\* four populated values, and another with two generic records.
C9_Witness ==
    /\ pc = "done"
    /\ result.kind = "Ok"
    /\ map = EmptyMap
    /\ Len(result.map.objects) >= 1
    /\ Len(result.map.objects) + Len(result.map.notes) = 2
    /\ Len(result.map.objects[1].definitions) = 4
    /\ \A j \in 1..4 : result.map.objects[1].definitions[j].some

\* The decoder is about to read a schema entry whose name, slot count and
\* slot tags are well-formed and followed by a byte other than 0x00.
BadTerminatorAhead ==
    /\ pc = "dec_schema_entry"
    /\ dec.next_entry < dec.schema_count
    /\ LET name == read_string(stream, pos)
           count == read_u8(stream, name.p)
           slots == ReadSlots(stream, count.p, count.v, << >>)
           terminator == read_u8(stream, slots.p)
       IN  /\ name.ok
           /\ count.ok
           /\ slots.ok
           /\ terminator.ok
           /\ terminator.v # 0

\* C10: when the byte after a schema entry's slot tags is not 0x00, the step
\* that reads the entry returns an invalid-encoding error value: the process
\* is not aborted and no Map is returned.
C10_TerminatorRecoverable ==
    [][BadTerminatorAhead => ReturnsInvalidData(result')]_vars

\* C11: decode of a proper prefix of encode(m) that ends before the end of
\* the record stream never returns a Map (with the missing bytes read as
\* zeros or otherwise) and never panics: once it is over it has returned an
\* error.
C11_TruncationFails ==
    CutBeforeRecordsEnd
      => /\ pc = "done" => (result.kind = "Err" /\ result.map = EmptyMap)
         /\ result.kind \in { "none", "Err" }

\* A prefix cut inside the last note record, after the whole of the first,
\* has been rejected, and so has one cut inside the audio bytes.
C11_Witness ==
    /\ CutBeforeRecordsEnd
    /\ pc = "done"
    /\ result.kind = "Err"
    /\ \/ Len(dec.notes) = 1 /\ Len(map.notes) = 2
       \/ map.audio.some /\ Len(stream) = enc.audio_offset + 1 /\ enc.audio_length = 2

\* An axis that, rounded to two decimal places, equals its rounding to the
\* nearest integer.
IntegralToTwoPlaces(f) ==
    ~F32Ne(round_to_places(f), round(f))

\* The step that writes the next note of the Map.
WritesNote ==
    /\ pc = "enc_notes"
    /\ enc.next_note <= Len(map.notes)
    /\ enc'.next_note = enc.next_note + 1

\* The bytes a step has written from the cursor on.
Written ==
    SubSeq(stream', pos + 1, pos')

\* The compact form of a note record: the flag false, then one byte an axis.
CompactForm(bs) ==
    /\ Len(bs) = 8
    /\ bs[6] = 0

\* The exact form: the flag true, then x and y as they are in the Map.
ExactForm(bs, position) ==
    /\ Len(bs) = 14
    /\ bs[6] = 1
    /\ SubSeq(bs, 7, 10) = position.x
    /\ SubSeq(bs, 11, 14) = position.y

\* C12: every note the encoder writes takes the compact form (flag false, one
\* byte an axis) exactly when both x and y, rounded to two decimal places,
\* equal their rounding to the nearest integer, and the exact form (flag
\* true, x and y unchanged as two f32) for every other position.
C12_QuantizationBoundary ==
    [][WritesNote =>
         LET position == map.notes[enc.next_note].position
         IN  IF IntegralToTwoPlaces(position.x) /\ IntegralToTwoPlaces(position.y)
             THEN CompactForm(Written)
             ELSE ExactForm(Written, position)]_vars

\* Both forms have been written: (1.004, 2) compact, then (0.5, 1.25) exact.
C12_Witness ==
    /\ pc = "enc_notes"
    /\ enc.next_note = 3
    /\ map.notes[1].position = Vec2(OnePointZeroZeroFour, F32FromInt(2))
    /\ map.notes[2].position = Vec2(Half, OneAndQuarter)
    /\ Len(stream) = enc.object_data_offset + 8 + 14
    /\ stream[enc.object_data_offset + 6] = 0
    /\ stream[enc.object_data_offset + 8 + 6] = 1

\* The Map the minimal-file example names: the mapper "alice", one note at
\* 1000 ms within one unit of (3, 4) on each axis, no generic record.
ExampleMap(m) ==
    /\ m.mappers = << Alice >>
    /\ Len(m.notes) = 1
    /\ m.notes[1].millisecond = ToLe(1000, 4)
    /\ WithinOne(m.notes[1].position.x, F32FromInt(3))
    /\ WithinOne(m.notes[1].position.y, F32FromInt(4))
    /\ m.objects = << >>

\* C13: decoding the minimal file (SS+m, version 2, one mapper "alice", no
\* custom-data field, no audio and no cover, the schema entry ssp_note with
\* one 2D-vector slot, one record at 1000 ms of schema id 0 with (3, 4) in
\* compact form) returns a Map with mappers = ["alice"], exactly one Note at
\* 1000 ms within 1 unit of (3, 4) on each axis, and no generic record.
C13_MinimalFile ==
    (map = EmptyMap /\ stream \in MinimalFiles /\ pc = "done")
      => (result.kind = "Ok" /\ ExampleMap(result.map))

\* The minimal file as serialize would write it has been decoded: the note
\* is at (2, 3).
C13_Witness ==
    /\ map = EmptyMap
    /\ stream = MinimalStream
    /\ SubSeq(stream, Len(stream) - 7, Len(stream)) = << 232, 3, 0, 0, 0, 0, 4, 5 >>
    /\ pc = "done"
    /\ result.kind = "Ok"
    /\ result.map.notes = << Note(1000, Vec2(F32FromInt(2), F32FromInt(3))) >>

\* The type tags that have a kind (0x01..0x0C) and those whose values are
\* read (0x01..0x0B); 0x0C is the nested sequence.
KnownTags ==
    1..12

ReadableTags ==
    1..11

\* The number held in the n bytes of the stream after offset at.
NumberAt(at, n) ==
    FromLe(SubSeq(stream, at + 1, at + n))

\* How many bytes the value of a readable tag takes at offset at; beyond
\* the stream when its length field is cut.
ValueWidth(tag, at) ==
    CASE tag \in { 1 } -> 1
      [] tag \in { 2 } -> 2
      [] tag \in { 3, 5 } -> 4
      [] tag \in { 4, 6 } -> 8
      [] tag = 7 -> IF at + 1 > Len(stream) THEN 1
                    ELSE IF stream[at + 1] = 1 THEN 9 ELSE 3
      [] tag \in { 8, 9 } -> IF at + 2 > Len(stream) THEN 2 ELSE 2 + NumberAt(at, 2)
      [] tag \in { 10, 11 } -> IF at + 4 > Len(stream) THEN 4 ELSE 4 + NumberAt(at, 4)

\* Among the n custom data fields that start at offset p, the first whose
\* tag is not readable is in the stream, whole fields before it.
RECURSIVE UnreadableFieldFrom(_, _)
UnreadableFieldFrom(p, n) ==
    IF n = 0 \/ p + 2 > Len(stream) THEN FALSE
    ELSE LET tag_at == p + 2 + NumberAt(p, 2) + 1
         IN  IF tag_at > Len(stream) THEN FALSE
             ELSE IF stream[tag_at] \notin ReadableTags THEN TRUE
             ELSE UnreadableFieldFrom(tag_at + ValueWidth(stream[tag_at], tag_at), n - 1)

\* The custom data block at the cursor has a field whose tag is outside
\* 0x01..0x0C or is 0x0C.
UnreadableFieldAhead ==
    /\ pc = "dec_custom"
    /\ pos + 2 <= Len(stream)
    /\ UnreadableFieldFrom(pos + 2, NumberAt(pos, 2))

\* The schema entry at the cursor has, among its slot tags, one outside
\* 0x01..0x0C.
UnknownSlotAhead ==
    /\ pc = "dec_schema_entry"
    /\ dec.next_entry < dec.schema_count
    /\ pos + 2 <= Len(stream)
    /\ LET count_at == pos + 2 + NumberAt(pos, 2) + 1
       IN  /\ count_at <= Len(stream)
           /\ \E j \in 1..stream[count_at] :
                /\ count_at + j <= Len(stream)
                /\ stream[count_at + j] \notin KnownTags

\* The record at the cursor is of a schema that has a nested-sequence slot.
NestedSlotAhead ==
    /\ RecordAhead
    /\ NextSchemaId \in DOMAIN dec.object_definitions
    /\ \E j \in 1..Len(NextEntry.definitions) : NextEntry.definitions[j].t = "Vec"

\* decode returns an error value and nothing it had read is changed.
ReturnsError ==
    /\ result'.kind = "Err"
    /\ result'.op = "deserialize"
    /\ result'.map = EmptyMap
    /\ dec' = dec

\* C14: decode returns an error, and puts no default in the place of a
\* value, whenever a slot tag of the schema table or the tag of a custom data
\* field is outside 0x01..0x0C, and whenever a custom data field or a slot
\* of the schema of the record being decoded has the nested-sequence tag
\* 0x0C.
C14_TypeTags ==
    [][/\ UnknownSlotAhead => (ReturnsError /\ ReturnsInvalidData(result'))
       /\ UnreadableFieldAhead => (ReturnsError /\ ReturnsInvalidData(result'))
       /\ NestedSlotAhead => ReturnsError]_vars

\* A record of the schema x/[2D vector, nested sequence] has been rejected
\* after its position was read.
C14_Witness ==
    /\ pc = "done"
    /\ result.kind = "Err"
    /\ result.err = "InvalidData"
    /\ DOMAIN dec.object_definitions = { 0 }
    /\ dec.object_definitions[0].definitions = << Slot("Vec2"), Slot("Vec") >>
    /\ pos = WideToNat(dec.object_data_offset) + 5 + 3
    /\ dec.notes = << >>
    /\ dec.objects = << >>

\* PHXMParser::deserialize has returned a Map.
PhxmReturned ==
    result.kind = "Ok" /\ result.op = "phxm_deserialize"

\* The note count objects.phxmo declares, after its type count.
PhxmDeclaredNotes ==
    NumberAt(4, 4)

\* The timestamp of the n-th note record from offset at on, n >= 1: a record
\* is a timestamp, a flag byte and two f32 (flag 1) or two bytes.
RECURSIVE PhxmTimestampOf(_, _)
PhxmTimestampOf(at, n) ==
    IF n = 1 THEN SubSeq(stream, at + 1, at + 4)
    ELSE PhxmTimestampOf(at + (IF stream[at + 5] = 1 THEN 13 ELSE 7), n - 1)

\* C15: every Map the PHXM decoder returns has no generic record, the PHXM
\* format tag, as many notes as the note count read from the note stream,
\* and as length the timestamp of the last of those notes in the stream, or
\* 0 when the count is 0.
C15_PhxmShape ==
    PhxmReturned
      => /\ result.map.objects = << >>
         /\ result.map.format = "PHXM"
         /\ Len(result.map.notes) = PhxmDeclaredNotes
         /\ result.map.length = IF PhxmDeclaredNotes = 0 THEN << 0, 0, 0, 0 >>
                                ELSE PhxmTimestampOf(8, PhxmDeclaredNotes)

\* A stream of two notes, at 1000 and 2000 ms, has been decoded.
C15_Witness ==
    /\ PhxmReturned
    /\ PhxmDeclaredNotes = 2
    /\ Len(result.map.notes) = 2
    /\ result.map.notes[1].millisecond = ToLe(1000, 4)
    /\ result.map.length = ToLe(2000, 4)

\* serialize has returned: the stream is encode(map).
Encoded ==
    pc = "encoded" /\ result.kind = "Ok" /\ result.op = "serialize"

\* The k-th u64 of the 80-byte block (k from 0), as patched.
TableEntry(k) ==
    NumberAt(OffsetSlot(k), 8)

\* Where each section of encode(m) starts and how many bytes were written
\* for it, counted from the Map: the strings follow the 128 bytes of header,
\* static metadata and offset block; a short string takes 2 bytes and its
\* own; the schema table is 14 bytes; the export signature ends the stream.
StringsWritten(m) ==
    (2 + Len(m.id)) + 2 * (2 + Len(m.title)) + 2
    + Len(Concat([i \in 1..Len(m.mappers) |-> << 0, 0 >> \o m.mappers[i]]))

CustomWritten(m) ==
    IF m.difficulty_name = << >> THEN 2
    ELSE 2 + (2 + Len(DifficultyNameKey)) + 1 + (2 + Len(m.difficulty_name))

AudioWritten(m) ==
    IF m.audio.some THEN Len(m.audio.bytes) ELSE 0

SectionStart(m, k) ==
    128 + StringsWritten(m)
    + (IF k > 0 THEN CustomWritten(m) ELSE 0)
    + (IF k > 1 THEN AudioWritten(m) ELSE 0)
    + (IF k > 2 THEN Len(m.cover) ELSE 0)
    + (IF k > 3 THEN 14 ELSE 0)

SectionWritten(m, k) ==
    CASE k = 0 -> CustomWritten(m)
      [] k = 1 -> AudioWritten(m)
      [] k = 2 -> Len(m.cover)
      [] k = 3 -> 14
      [] k = 4 -> Len(stream) - (2 + Len(ExportSignature)) - SectionStart(m, 4)

\* The k-th pair of the block is the start and the byte count of section k.
PairRight(k) ==
    /\ TableEntry(2 * k) = SectionStart(map, k)
    /\ TableEntry(2 * k + 1) = SectionWritten(map, k)

\* C16: once encode(m) has completed, each of the five (offset, length)
\* pairs in the 80-byte block (custom data, audio, cover, schema table,
\* record stream) is the absolute position at which the section's bytes
\* start and the number of bytes written for it, sections written with no
\* payload included.
C16_OffsetTable ==
    Encoded => \A k \in 0..4 : PairRight(k)

\* A step of serialize that writes a section (or ends in the overflow panic
\* of the note loop).
SectionStep ==
    /\ pc \in { "enc_header", "enc_strings", "enc_custom", "enc_media", "enc_schema",
                "enc_notes" }
    /\ pc' # "enc_trailer"

\* The step writes at the end of the stream and nowhere else, and seeks
\* nowhere.
WritesForward ==
    /\ pos = Len(stream)
    /\ Len(stream') >= Len(stream)
    /\ SubSeq(stream', 1, Len(stream)) = stream
    /\ pos' = Len(stream')
    /\ enc.seeks = << >>
    /\ enc'.seeks = << >>

\* The placeholder: the 80 bytes after the header (10) and the static
\* metadata (38).
PlaceholderBytes ==
    49..128

\* The step seeks once, backward to the start of the placeholder, which
\* still holds its zeros, and changes these 80 bytes only.
PatchesPlaceholder ==
    /\ enc.seeks = << >>
    /\ enc'.seeks = << << pos, 48 >> >>
    /\ 48 < pos
    /\ \A i \in PlaceholderBytes : stream[i] = 0
    /\ Len(stream') = Len(stream)
    /\ \A i \in (1..Len(stream)) \ PlaceholderBytes : stream'[i] = stream[i]
    /\ pos' = 128

\* The step seeks once, to the end of the stream, which is the end of the
\* record stream, and writes the export signature there.
WritesSignatureLast ==
    /\ Len(enc.seeks) = 1
    /\ enc'.seeks = Append(enc.seeks, << pos, Len(stream) >>)
    /\ Len(stream) = enc.object_data_offset + enc.object_data_length
    /\ stream' = stream \o write_string(ExportSignature)
    /\ pos' = Len(stream')
    /\ pc' = "encoded"

\* C17: in every run of serialize the sections are written strictly
\* forward; then one backward seek goes to the start of the 80-byte
\* placeholder and the ten u64 written there change those 80 bytes only;
\* then one seek goes to the end of the stream and the export signature is
\* written last, after the record stream, over no byte written before.
C17_SeekDiscipline ==
    [][/\ SectionStep => WritesForward
       /\ (pc = "enc_notes" /\ pc' = "enc_trailer") => PatchesPlaceholder
       /\ pc = "enc_trailer" => WritesSignatureLast
       /\ pc' = "encoded" => Len(enc'.seeks) = 2]_vars

\* A Map of two notes has been encoded: the seek back from the end of the
\* record stream, the seek forward from the end of the placeholder.
C17_Witness ==
    /\ Encoded
    /\ Len(map.notes) = 2
    /\ enc.seeks = << << RecordStreamEnd, 48 >>, << 128, RecordStreamEnd >> >>
    /\ SubSeq(stream, RecordStreamEnd + 1, Len(stream)) = write_string(ExportSignature)

\* The kinds of the type tags 0x01..0x0C, in tag order.
KindOfTag ==
    << "U8", "U16", "U32", "U64", "F32", "F64", "Vec2", "Buf", "String", "LongBuf",
       "LongString", "Vec" >>

\* Where the file says its schema table starts, and the entry count there.
SchemaTableAt ==
    NumberAt(OffsetSlot(6), 8)

SchemaEntryCount ==
    stream[SchemaTableAt + 1]

\* The u16 at offset at.
ShortAt(at) ==
    stream[at + 1] + 256 * stream[at + 2]

\* The schema entry at offset at, its name being length bytes long, as the
\* registry should hold it: the name, the slots in file order by the tag
\* bytes after the slot count, no slot populated.
EntryWithName(at, length) ==
    [name |-> SubSeq(stream, at + 3, at + 2 + length),
     millisecond |-> << 0, 0, 0, 0 >>,
     definitions |-> [j \in 1..stream[at + 3 + length] |->
                        [t |-> KindOfTag[stream[at + 3 + length + j]], some |-> FALSE,
                         v |-> << >>]]]

EntryOfFile(at) ==
    EntryWithName(at, ShortAt(at))

\* Where the entry after the one at offset at starts: after the name, the
\* slot count, the tags and the terminator.
EntryEnd(at) ==
    at + 3 + ShortAt(at) + stream[at + 3 + ShortAt(at)] + 1

\* Where the i-th entry (from 0) starts, the first one starting at at.
RECURSIVE EntryStart(_, _)
EntryStart(at, i) ==
    IF i = 0 THEN at ELSE EntryStart(EntryEnd(at), i - 1)

\* The registry holds the n entries of the table at offset at under the
\* keys 0 .. n-1.
RegistryOfTable(at, n) ==
    /\ DOMAIN dec.object_definitions = 0..(n - 1)
    /\ \A i \in 0..(n - 1) : dec.object_definitions[i] = EntryOfFile(EntryStart(at + 1, i))

RegistryOfFile ==
    RegistryOfTable(SchemaTableAt, SchemaEntryCount)

\* C18: once the schema table of a file with n entries is parsed, the keys
\* of the registry are exactly 0 .. n-1, the entry at key i is the i-th
\* entry of the file with its slots in file order and none populated; this
\* is so before the first record is decoded, and no step of the decoding of
\* the record stream adds, removes or changes an entry.
C18_RegistryShape ==
    [][/\ (pc = "dec_schema_entry" /\ pc' = "dec_records") => RegistryOfFile'
       /\ pc = "dec_records" => dec'.object_definitions = dec.object_definitions]_vars

\* A file with two schema entries and two records has been decoded; the
\* second entry has four slots.
C18_Witness ==
    /\ pc = "done"
    /\ result.kind = "Ok"
    /\ result.op = "deserialize"
    /\ SchemaEntryCount = 2
    /\ RegistryOfFile
    /\ Len(dec.object_definitions[1].definitions) = 4
    /\ Len(dec.notes) + Len(dec.objects) = 2

\* The has-audio and has-cover flags of the file (bytes 45 and 46 from 0).
HasAudioFlag ==
    stream[46] = 1

HasCoverFlag ==
    stream[47] = 1

\* The bytes the k-th pair of the offset table declares: `length` bytes at
\* `offset`.
DeclaredBytes(k) ==
    SubSeq(stream, WideToNat(SubSeq(stream, OffsetSlot(2 * k) + 1, OffsetSlot(2 * k) + 8)) + 1,
           WideToNat(SubSeq(stream, OffsetSlot(2 * k) + 1, OffsetSlot(2 * k) + 8))
           + WideToNat(SubSeq(stream, OffsetSlot(2 * k + 1) + 1, OffsetSlot(2 * k + 1) + 8)))

\* The audio bytes of a decoded Map, none when it has no audio.
AudioOf(m) ==
    IF m.audio.some THEN m.audio.bytes ELSE << >>

\* C19: when the has-audio flag of a file is false the decoded Map has no
\* audio, whatever audio offset and length the offset table declares, and
\* when has-cover is false the decoded cover is empty; when a flag is true
\* the bytes are exactly the `length` bytes at the declared offset.
C19_MediaGating ==
    (pc = "done" /\ result.kind = "Ok" /\ result.op = "deserialize")
      => /\ IF HasAudioFlag THEN AudioOf(result.map) = DeclaredBytes(1)
            ELSE ~result.map.audio.some
         /\ IF HasCoverFlag THEN result.map.cover = DeclaredBytes(2)
            ELSE result.map.cover = << >> /\ ~result.map.cover_far

\* The custom data block with the one field: the count 1, the name
\* "difficulty_name" as a short string, the tag 0x09 and the display name
\* as a short string (shorter than 256 bytes here).
DifficultyField(name) ==
    << 1, 0 >>
    \o << 15, 0, 100, 105, 102, 102, 105, 99, 117, 108, 116, 121, 95, 110, 97, 109, 101 >>
    \o << 9 >>
    \o << Len(name), 0 >> \o name

\* C20: serialize writes a custom data field count of 1 followed by the
\* single field difficulty_name, of type tag 0x09, holding the difficulty
\* display name as a short string, exactly when the name of the Map is not
\* empty; otherwise it writes a field count of 0 and no field.
C20_CustomDataEmission ==
    [][pc = "enc_custom"
         => /\ pc' = "enc_media"
            /\ Written = IF map.difficulty_name # << >>
                         THEN DifficultyField(map.difficulty_name)
                         ELSE << 0, 0 >>]_vars

\* The field has been written for the name "hi": 24 bytes.
C20_Witness ==
    /\ pc = "enc_media"
    /\ map.difficulty_name = << 104, 105 >>
    /\ Len(stream) = pos
    /\ SubSeq(stream, pos - 23, pos) = DifficultyField(<< 104, 105 >>)

\* The record-stream offset and length the file declares (the last two u64
\* of the offset table).
DeclaredOffset ==
    SubSeq(stream, OffsetSlot(8) + 1, OffsetSlot(8) + 8)

DeclaredLength ==
    SubSeq(stream, OffsetSlot(9) + 1, OffsetSlot(9) + 8)

\* The step after the last schema entry: the seek to the record stream and
\* the computation of its end.
StartsRecordStream ==
    /\ pc = "dec_schema_entry"
    /\ dec.next_entry >= dec.schema_count

\* That step neither aborts nor fails, and the end it computes is
\* offset + length: the sum is not below the offset, as a wrapped sum is.
EndComputed ==
    /\ result'.kind = "none"
    /\ pc' = "dec_records"
    /\ ~U64Less(dec'.object_section_end, DeclaredOffset)
    /\ ~U64Less(dec'.object_section_end, DeclaredLength)

\* C21: a new record is started only while the position is below
\* offset + length, each started record advances the position by at least 5
\* bytes or ends the call, the call returns its Map as soon as the position
\* is not below the end, and the computation of offset + length neither
\* overflows nor aborts: the loop of the record stream ends for every
\* stream and every declared offset and length.
C21_RecordLoopEnds ==
    [][/\ StartsRecordStream => EndComputed
       /\ (pc = "dec_records" /\ pc' = "dec_records")
            => (InRecordSection(dec, pos) /\ pos' >= pos + 5)
       /\ (pc = "dec_records" /\ ~InRecordSection(dec, pos))
            => (pc' = "done" /\ result'.kind = "Ok")]_vars

\* The note loop of the PHXM decoder is at a record that is whole in the
\* stream: 7 bytes in compact form, 13 in exact form (flag byte 1).
PhxmRecordAhead ==
    /\ pc = "phxm_notes"
    /\ dec.phxm.next_note < WideToNat(dec.phxm.note_count)
    /\ pos + 7 <= Len(stream)
    /\ stream[pos + 5] = 1 => pos + 13 <= Len(stream)

\* The position that record stands for: the two floats as they are, or each
\* axis byte less one.
PhxmPositionAhead ==
    IF stream[pos + 5] = 1
    THEN [x |-> SubSeq(stream, pos + 6, pos + 9), y |-> SubSeq(stream, pos + 10, pos + 13)]
    ELSE [x |-> F32FromInt(stream[pos + 6] - 1), y |-> F32FromInt(stream[pos + 7] - 1)]

\* C22: for every compact record of the PHXM note stream and every axis
\* byte b in 0..255 the decoder produces the axis value b - 1 with no
\* underflow and no abort, for every exact record the two floats unchanged,
\* and in both cases the note keeps the timestamp of the record.
C22_PhxmCompactAxis ==
    [][PhxmRecordAhead
         => /\ result'.kind = "none"
            /\ pc' = "phxm_notes"
            /\ dec'.phxm.notes
                 = Append(dec.phxm.notes,
                          [millisecond |-> SubSeq(stream, pos + 1, pos + 4),
                           position |-> PhxmPositionAhead])]_vars

====
